---- MODULE Spec2Model ----
(***************************************************************************)
(* A model of cheatmd's variable resolution engine and of the selector     *)
(* state machine that drives it (internal/ui/resolve.go and                *)
(* internal/ui/main_model.go), with the command builder of                 *)
(* internal/executor/executor.go.                                          *)
(*                                                                         *)
(* Strings are sequences of one-character strings, so that scanning,       *)
(* substitution and splitting are computed the way the Go code computes    *)
(* them.  A Go map (a scope, the variant table) is a function; ranging     *)
(* over a map visits its keys in an unspecified order, which is modelled   *)
(* as the set of the results of every order.                               *)
(***************************************************************************)
EXTENDS Integers, Sequences, FiniteSets, TLC

VARIABLES
    \* ---- the event loop (bubbletea program around mainModel) ----
    pc,          \* "start" | "loop" | "quit" (tea.Quit returned, QuitMsg not yet handled) | "done" | "panic";
                 \* "collect" | "collected" when only collectVariables is exercised
    phase,       \* mainModel.phase: "cheatSelect" | "varResolve"
    quitting,    \* mainModel.quitting
    selected,    \* mainModel.selected: index into Cheats, 0 = nil
    cursor,      \* mainModel.cursor
    offset,      \* mainModel.offset
    textInput,   \* mainModel.textInput.Value()
    filtered,    \* mainModel.filtered: the cheats listed in phase 1, as indices into Cheats
    height,      \* mainModel.height: 0 as long as no tea.WindowSizeMsg has come
    varState,    \* mainModel.varState: <<>> (nil) or <<a varResolveState record>>
    cheatScope,  \* Cheat.Scope of every cheat of the index: [1..Len(Cheats) -> scope]
    late,        \* messages handled since a handler returned tea.Quit
    inflight,    \* shell commands started by prepareCurrentVar whose shellResultMsg is not yet delivered
    ticks,       \* filterMsg scheduled by debounceFilter and not yet delivered
    autoContinue,\* config.GetAutoContinue()
    environ,     \* os.Getenv: the ambient environment, a scope
    finalCmd,    \* what RunTUI hands to executeOutput: <<>> until then, <<command>> after
    shown,       \* history: names of the variables whose prompt the user has been shown since
                 \* their resolution was last started or cleared
    lastEvent,   \* history: the last handler that ran, with what it needs to be told apart
    \* ---- one function applied to generated inputs (collectVariables, ...) ----
    cvIn,        \* the input given to the function: the snippet given to collectVariables, the
                 \* document given to parseLines, the files given to ParseDirectory, ...
    cvOut        \* what the function returned (once pc = "collected", ...); while parseLines
                 \* or ParseDirectory runs (pc = "parsing", "pipeline"), how far it has come

vars == <<pc, phase, quitting, selected, cursor, offset, textInput, filtered, height, varState,
          cheatScope, late, inflight, ticks, autoContinue, environ, finalCmd, shown, lastEvent,
          cvIn, cvOut>>


\* ------------------------------------------------------------------------
\* Strings
\* ------------------------------------------------------------------------

Lower == {"a","b","c","d","e","f","g","h","i","j","k","l","m",
          "n","o","p","q","r","s","t","u","v","w","x","y","z"}
Upper == {"A","B","C","D","E","F","G","H","I","J","K","L","M",
          "N","O","P","Q","R","S","T","U","V","W","X","Y","Z"}
Digit == {"0","1","2","3","4","5","6","7","8","9"}
Space == {" ", "\t", "\n", "\r"}

Max(a, b) == IF a > b THEN a ELSE b

\* clamp(v, minV, maxV)
clamp(v, minV, maxV) == IF v < minV THEN minV ELSE IF v > maxV THEN maxV ELSE v

\* s[i:] starts with p (i is 1-based)
HasPrefixAt(s, i, p) ==
    /\ i + Len(p) - 1 <= Len(s)
    /\ \A k \in 1..Len(p) : s[i + k - 1] = p[k]

\* strings.Index: the first position of sub in s from position i on, 0 if none
RECURSIVE IndexFrom(_, _, _)
IndexFrom(s, i, sub) ==
    IF i + Len(sub) - 1 > Len(s) THEN 0
    ELSE IF HasPrefixAt(s, i, sub) THEN i
    ELSE IndexFrom(s, i + 1, sub)

Contains(s, sub) == IndexFrom(s, 1, sub) # 0

\* strings.ReplaceAll(s, old, new) for a non-empty old: non-overlapping, left to right
RECURSIVE ReplaceAllFrom(_, _, _, _)
ReplaceAllFrom(s, i, old, new) ==
    IF i > Len(s) THEN <<>>
    ELSE IF HasPrefixAt(s, i, old) THEN new \o ReplaceAllFrom(s, i + Len(old), old, new)
    ELSE <<s[i]>> \o ReplaceAllFrom(s, i + 1, old, new)

ReplaceAll(s, old, new) == ReplaceAllFrom(s, 1, old, new)

\* strings.TrimSpace
RECURSIVE TrimLeft(_)
TrimLeft(s) == IF s # <<>> /\ s[1] \in Space THEN TrimLeft(Tail(s)) ELSE s

RECURSIVE TrimRight(_)
TrimRight(s) ==
    IF s # <<>> /\ s[Len(s)] \in Space THEN TrimRight(SubSeq(s, 1, Len(s) - 1)) ELSE s

TrimSpace(s) == TrimRight(TrimLeft(s))

\* strings.Split(s, sep) for a non-empty sep
RECURSIVE Split(_, _)
Split(s, sep) ==
    LET i == IndexFrom(s, 1, sep) IN
    IF i = 0 THEN <<s>>
    ELSE <<SubSeq(s, 1, i - 1)>> \o Split(SubSeq(s, i + Len(sep), Len(s)), sep)

\* every order in which a range over a map with key set S may visit the keys
RECURSIVE Orders(_)
Orders(S) ==
    IF S = {} THEN {<<>>}
    ELSE UNION {{<<x>> \o o : o \in Orders(S \ {x})} : x \in S}

\* for name, value := range scope { text = strings.ReplaceAll(text, "$"+name, value) }
\* with the keys visited in the order given
RECURSIVE SubstituteInOrder(_, _, _)
SubstituteInOrder(text, scope, order) ==
    IF order = <<>> THEN text
    ELSE SubstituteInOrder(ReplaceAll(text, <<"$">> \o Head(order), scope[Head(order)]),
                           scope, Tail(order))

\* the results the substitution loop can produce
SubstituteVars(text, scope) ==
    {SubstituteInOrder(text, scope, o) : o \in Orders(DOMAIN scope)}

EmptyScope == [n \in {} |-> <<>>]

\* ------------------------------------------------------------------------
\* resolve.go: scanning for $name references
\* ------------------------------------------------------------------------

isVarChar(c, first) ==
    \/ c \in Lower \/ c \in Upper \/ c = "_"
    \/ (~first /\ c \in Digit)

\* the position just past the variable name whose first character is at `start`
RECURSIVE VarEnd(_, _, _)
VarEnd(cmd, j, start) ==
    IF j <= Len(cmd) /\ isVarChar(cmd[j], j = start) THEN VarEnd(cmd, j + 1, start) ELSE j

AppendNew(seq, x) == IF \E k \in 1..Len(seq) : seq[k] = x THEN seq ELSE Append(seq, x)

RECURSIVE findAllVarsFrom(_, _, _)
findAllVarsFrom(cmd, i, acc) ==
    IF i > Len(cmd) THEN acc
    ELSE IF cmd[i] # "$" \/ i >= Len(cmd) THEN findAllVarsFrom(cmd, i + 1, acc)
    ELSE IF i > 1 /\ cmd[i - 1] = "\\" THEN findAllVarsFrom(cmd, i + 1, acc)
    ELSE LET j == VarEnd(cmd, i + 1, i + 1) IN
         IF j > i + 1
         THEN findAllVarsFrom(cmd, j, AppendNew(acc, SubSeq(cmd, i + 1, j - 1)))
         ELSE findAllVarsFrom(cmd, j, acc)

findAllVars(cmd) == findAllVarsFrom(cmd, 1, <<>>)

RECURSIVE findCommandVarsFrom(_, _, _, _, _)
findCommandVarsFrom(cmd, i, inSingleQuote, inDoubleQuote, acc) ==
    IF i > Len(cmd) THEN acc
    ELSE LET c == cmd[i] IN
         IF c = "\\" /\ i < Len(cmd)
         THEN findCommandVarsFrom(cmd, i + 2, inSingleQuote, inDoubleQuote, acc)
         ELSE IF c = "'" /\ ~inDoubleQuote
         THEN findCommandVarsFrom(cmd, i + 1, ~inSingleQuote, inDoubleQuote, acc)
         ELSE IF c = "\"" /\ ~inSingleQuote
         THEN findCommandVarsFrom(cmd, i + 1, inSingleQuote, ~inDoubleQuote, acc)
         ELSE IF inSingleQuote
         THEN findCommandVarsFrom(cmd, i + 1, inSingleQuote, inDoubleQuote, acc)
         ELSE IF c # "$" \/ i >= Len(cmd)
         THEN findCommandVarsFrom(cmd, i + 1, inSingleQuote, inDoubleQuote, acc)
         ELSE LET j == VarEnd(cmd, i + 1, i + 1) IN
              IF j > i + 1
              THEN findCommandVarsFrom(cmd, j, inSingleQuote, inDoubleQuote,
                                       AppendNew(acc, SubSeq(cmd, i + 1, j - 1)))
              ELSE findCommandVarsFrom(cmd, j, inSingleQuote, inDoubleQuote, acc)

\* findCommandVars(cmd, nil)
findCommandVars(cmd) == findCommandVarsFrom(cmd, 1, FALSE, FALSE, <<>>)

\* ------------------------------------------------------------------------
\* parser.go: the records the resolver reads
\* ------------------------------------------------------------------------

\* parser.VarDef; prompt-only is Shell = Literal = ""
VarDef(name, shell, literal, args, condition) ==
    [Name |-> name, Shell |-> shell, Literal |-> literal, Args |-> args, Condition |-> condition]

\* the fields of parser.Cheat that the resolver and the command builder read
Cheat(command, imports, vardefs) ==
    [Command |-> command, Imports |-> imports, Vars |-> vardefs]

\* parser.Module
Module(imports, vardefs) == [Imports |-> imports, Vars |-> vardefs]

\* ------------------------------------------------------------------------
\* resolve.go: collectVariables
\* ------------------------------------------------------------------------

\* collectFromImports with a fault: the variables of a module are appended before
\* its imports are visited
RECURSIVE collectFromImportsVarsFirst(_, _, _)
collectFromImportsVarsFirst(modules, imports, st) ==
    IF imports = <<>> THEN st
    ELSE LET importName == Head(imports) IN
         IF importName \in st.seen THEN collectFromImportsVarsFirst(modules, Tail(imports), st)
         ELSE LET st1 == [st EXCEPT !.seen = @ \cup {importName}]
                  st2 == IF importName \in DOMAIN modules
                         THEN collectFromImportsVarsFirst(modules, modules[importName].Imports,
                                  [st1 EXCEPT !.defs = @ \o modules[importName].Vars])
                         ELSE st1
              IN  collectFromImportsVarsFirst(modules, Tail(imports), st2)

\* collectFromImports: st = [seen, defs]; defs is every VarDef appended so far, in
\* the order of the appends (varDefs[name] is its restriction to name)
RECURSIVE collectFromImports(_, _, _)
collectFromImports(modules, imports, st) ==
    IF imports = <<>> THEN st
    ELSE LET importName == Head(imports) IN
         IF importName \in st.seen THEN collectFromImports(modules, Tail(imports), st)
         ELSE LET st1 == [st EXCEPT !.seen = @ \cup {importName}]
                  st2 == IF importName \in DOMAIN modules
                         THEN LET inner == collectFromImports(modules, modules[importName].Imports, st1)
                              IN  [inner EXCEPT !.defs = @ \o modules[importName].Vars]
                         ELSE st1
              IN  collectFromImports(modules, Tail(imports), st2)

\* every definition visible to the cheat: imports first, then local
allVarDefs(cheat, modules) ==
    collectFromImports(modules, cheat.Imports, [seen |-> {}, defs |-> <<>>]).defs \o cheat.Vars

\* varDefs[name]
RECURSIVE varDefsOf(_, _)
varDefsOf(defs, name) ==
    IF defs = <<>> THEN <<>>
    ELSE IF Head(defs).Name = name THEN <<Head(defs)>> \o varDefsOf(Tail(defs), name)
    ELSE varDefsOf(Tail(defs), name)

\* the names one variant depends on, in the order the loops meet them
defDeps(def) ==
    (IF def.Shell # <<>> THEN findCommandVars(def.Shell) ELSE <<>>)
    \o (IF def.Literal # <<>> THEN findAllVars(def.Literal) ELSE <<>>)
    \o (IF def.Condition # <<>> THEN findAllVars(def.Condition) ELSE <<>>)

RECURSIVE depsOfVariants(_)
depsOfVariants(variants) ==
    IF variants = <<>> THEN <<>> ELSE defDeps(Head(variants)) \o depsOfVariants(Tail(variants))

RECURSIVE without(_, _)
without(names, S) ==
    IF names = <<>> THEN <<>>
    ELSE IF Head(names) \in S THEN without(Tail(names), S)
    ELSE <<Head(names)>> \o without(Tail(names), S)

\* the transitive closure loop over the queue
RECURSIVE findAllNeeded(_, _, _)
findAllNeeded(defs, queue, allNeeded) ==
    IF queue = <<>> THEN allNeeded
    ELSE LET varName == Head(queue) IN
         IF varName \in allNeeded THEN findAllNeeded(defs, Tail(queue), allNeeded)
         ELSE LET needed1 == allNeeded \cup {varName}
                  deps == depsOfVariants(varDefsOf(defs, varName))
              IN  findAllNeeded(defs, Tail(queue) \o without(deps, needed1), needed1)

\* where addWithDeps appends varName to orderedVars
emitVar(st, varName) ==
    [added |-> st.added \cup {varName},
     visiting |-> st.visiting \ {varName},
     orderedVars |-> Append(st.orderedVars, varName)]

\* addWithDeps: st = [added, visiting, orderedVars]
RECURSIVE addWithDeps(_, _, _, _)
RECURSIVE addEach(_, _, _, _)
addEach(defs, allNeeded, names, st) ==
    IF names = <<>> THEN st
    ELSE addEach(defs, allNeeded, Tail(names), addWithDeps(defs, allNeeded, Head(names), st))

\* addWithDeps with a fault: the variable is appended before its dependencies are visited
addWithDepsEmitFirst(defs, allNeeded, varName, st) ==
    IF varName \in st.added \/ varName \notin allNeeded THEN st
    ELSE IF varName \in st.visiting THEN st
    ELSE addEach(defs, allNeeded, depsOfVariants(varDefsOf(defs, varName)),
                 emitVar(st, varName))

addWithDeps(defs, allNeeded, varName, st) ==
    IF varName \in st.added \/ varName \notin allNeeded THEN st
    ELSE IF varName \in st.visiting THEN st
    ELSE emitVar(addEach(defs, allNeeded, depsOfVariants(varDefsOf(defs, varName)),
                         [st EXCEPT !.visiting = @ \cup {varName}]),
                 varName)

\* resolve.go varState
newVarState(defs, varName) ==
    LET ds == varDefsOf(defs, varName) IN
    [def |-> IF ds # <<>> THEN ds[1] ELSE VarDef(varName, <<>>, <<>>, <<>>, <<>>),
     variants |-> ds,
     value |-> <<>>, resolved |-> FALSE, prefill |-> <<>>, skipAutoCont |-> FALSE]

collectVariables(cheat, modules) ==
    LET defs == allVarDefs(cheat, modules)
        usedVars == findCommandVars(cheat.Command)
        allNeeded == findAllNeeded(defs, usedVars, {})
        orderedVars == addEach(defs, allNeeded, usedVars,
                               [added |-> {}, visiting |-> {}, orderedVars |-> <<>>]).orderedVars
    IN  [i \in 1..Len(orderedVars) |-> newVarState(defs, orderedVars[i])]

\* ------------------------------------------------------------------------
\* resolve.go, main_model.go: selector options
\* ------------------------------------------------------------------------

\* parseShellArgs: st = [args, current, inQuote, quoteChar]
RECURSIVE parseShellArgsFrom(_, _, _)
parseShellArgsFrom(s, i, st) ==
    IF i > Len(s)
    THEN IF st.current # <<>> THEN Append(st.args, st.current) ELSE st.args
    ELSE LET c == s[i] IN
         IF st.inQuote
         THEN IF c = st.quoteChar
              THEN parseShellArgsFrom(s, i + 1, [st EXCEPT !.inQuote = FALSE])
              ELSE parseShellArgsFrom(s, i + 1, [st EXCEPT !.current = Append(@, c)])
         ELSE IF c \in {"\"", "'"}
              THEN parseShellArgsFrom(s, i + 1, [st EXCEPT !.inQuote = TRUE, !.quoteChar = c])
         ELSE IF c \in {" ", "\t"}
              THEN IF st.current # <<>>
                   THEN parseShellArgsFrom(s, i + 1,
                            [st EXCEPT !.args = Append(@, st.current), !.current = <<>>])
                   ELSE parseShellArgsFrom(s, i + 1, st)
         ELSE parseShellArgsFrom(s, i + 1, [st EXCEPT !.current = Append(@, c)])

parseShellArgs(s) ==
    parseShellArgsFrom(s, 1, [args |-> <<>>, current |-> <<>>, inQuote |-> FALSE, quoteChar |-> " "])

DigitValue(c) == CHOOSE n \in 0..9 : <<"0","1","2","3","4","5","6","7","8","9">>[n + 1] = c

\* fmt.Sscanf(s, "%d", &n) for an unsigned s: the value of the leading digits;
\* n keeps its old value when s starts with no digit
RECURSIVE scanDigits(_, _, _)
scanDigits(s, i, acc) ==
    IF i <= Len(s) /\ s[i] \in Digit THEN scanDigits(s, i + 1, acc * 10 + DigitValue(s[i])) ELSE acc

Sscanf(s, old) == IF s # <<>> /\ s[1] \in Digit THEN scanDigits(s, 1, 0) ELSE old

OptDelimiter == <<"-","-","d","e","l","i","m","i","t","e","r">>
OptColumn    == <<"-","-","c","o","l","u","m","n">>
OptMap       == <<"-","-","m","a","p">>
OptHeader    == <<"-","-","h","e","a","d","e","r">>

\* the loop of parseSelectorOpts
RECURSIVE parseSelectorOptsFrom(_, _, _)
parseSelectorOptsFrom(args, i, opts) ==
    IF i > Len(args) THEN opts
    ELSE IF args[i] = OptDelimiter /\ i + 1 <= Len(args)
         THEN parseSelectorOptsFrom(args, i + 2, [opts EXCEPT !.Delimiter = args[i + 1]])
    ELSE IF args[i] = OptColumn /\ i + 1 <= Len(args)
         THEN parseSelectorOptsFrom(args, i + 2, [opts EXCEPT !.Column = Sscanf(args[i + 1], @)])
    ELSE IF args[i] = OptMap /\ i + 1 <= Len(args)
         THEN parseSelectorOptsFrom(args, i + 2, [opts EXCEPT !.MapCmd = args[i + 1]])
    ELSE parseSelectorOptsFrom(args, i + 1, opts)

\* SelectOptions{}
NoSelectOpts == [Delimiter |-> <<>>, Column |-> 0, MapCmd |-> <<>>]

parseSelectorOpts(selectorArgs) ==
    IF selectorArgs = <<>> THEN NoSelectOpts
    ELSE parseSelectorOptsFrom(parseShellArgs(selectorArgs), 1, NoSelectOpts)

RECURSIVE extractCustomHeaderFrom(_, _)
extractCustomHeaderFrom(args, i) ==
    IF i > Len(args) THEN <<>>
    ELSE IF args[i] = OptHeader /\ i + 1 <= Len(args) THEN args[i + 1]
    ELSE extractCustomHeaderFrom(args, i + 1)

extractCustomHeader(selectorArgs) ==
    IF selectorArgs = <<>> THEN <<>> ELSE extractCustomHeaderFrom(parseShellArgs(selectorArgs), 1)

\* getDisplayColumn
getDisplayColumn(line, delimiter, column) ==
    IF delimiter = <<>> \/ column = 0 THEN line
    ELSE LET parts == Split(line, delimiter) IN
         IF column > 0 /\ column <= Len(parts) THEN TrimSpace(parts[column]) ELSE line

\* Two characters outside ASCII, a capital letter and its lower case, written by
\* their code points: U+023A takes two bytes in UTF-8, U+2C65 takes three.
CapitalAStroke == "U+023A"
SmallAStroke == "U+2C65"

\* the number of bytes of a character, and len(s) of a string
Utf8Len(c) == IF c = CapitalAStroke THEN 2 ELSE IF c = SmallAStroke THEN 3 ELSE 1

RECURSIVE ByteLen(_)
ByteLen(s) == IF s = <<>> THEN 0 ELSE Utf8Len(Head(s)) + ByteLen(Tail(s))

\* strings.ToLower (unicode.ToLower on every character)
LowerOf(c) ==
    IF c = CapitalAStroke THEN SmallAStroke
    ELSE IF c \in Upper
    THEN LET u == <<"A","B","C","D","E","F","G","H","I","J","K","L","M",
                    "N","O","P","Q","R","S","T","U","V","W","X","Y","Z">>
             l == <<"a","b","c","d","e","f","g","h","i","j","k","l","m",
                    "n","o","p","q","r","s","t","u","v","w","x","y","z">>
         IN  l[CHOOSE k \in 1..26 : u[k] = c]
    ELSE c

ToLower(s) == [i \in 1..Len(s) |-> LowerOf(s[i])]

\* strings.Fields: the maximal runs of non-space characters
RECURSIVE FieldsFrom(_, _, _, _)
FieldsFrom(s, i, cur, acc) ==
    IF i > Len(s) THEN (IF cur # <<>> THEN Append(acc, cur) ELSE acc)
    ELSE IF s[i] \in Space
         THEN FieldsFrom(s, i + 1, <<>>, IF cur # <<>> THEN Append(acc, cur) ELSE acc)
         ELSE FieldsFrom(s, i + 1, Append(cur, s[i]), acc)

Fields(s) == FieldsFrom(s, 1, <<>>, <<>>)

\* ------------------------------------------------------------------------
\* resolve.go: variant selection
\* ------------------------------------------------------------------------

\* evaluateCondition after the substitution loop
evalSubstituted(c) ==
    IF Contains(c, <<"=","=">>)
    THEN LET i == IndexFrom(c, 1, <<"=","=">>) IN
         TrimSpace(SubSeq(c, 1, i - 1)) = TrimSpace(SubSeq(c, i + 2, Len(c)))
    ELSE IF Contains(c, <<"!","=">>)
    THEN LET i == IndexFrom(c, 1, <<"!","=">>) IN
         TrimSpace(SubSeq(c, 1, i - 1)) # TrimSpace(SubSeq(c, i + 2, Len(c)))
    ELSE c # <<>>

\* the results evaluateCondition can return
evaluateCondition(condition, scope) ==
    {evalSubstituted(c) : c \in SubstituteVars(TrimSpace(condition), scope)}

\* the loop of selectVariant from variant i on; defaultDef is 0 for nil
RECURSIVE selectVariantFrom(_, _, _, _)
selectVariantFrom(variants, scope, i, defaultDef) ==
    IF i > Len(variants) THEN {defaultDef}
    ELSE IF variants[i].Condition = <<>>
         THEN selectVariantFrom(variants, scope, i + 1, IF defaultDef = 0 THEN i ELSE defaultDef)
    ELSE UNION {IF b THEN {i} ELSE selectVariantFrom(variants, scope, i + 1, defaultDef)
                : b \in evaluateCondition(variants[i].Condition, scope)}

\* selectVariant with a fault: a variant without a condition wins over the conditional ones
selectVariantDefaultFirst(variants, scope) ==
    IF \E i \in DOMAIN variants : variants[i].Condition = <<>>
    THEN {CHOOSE i \in DOMAIN variants :
              /\ variants[i].Condition = <<>>
              /\ \A j \in 1..(i - 1) : variants[j].Condition # <<>>}
    ELSE selectVariantFrom(variants, scope, 1, 0)

\* the indices (0: nil) selectVariant can return
selectVariant(variants, scope) == selectVariantFrom(variants, scope, 1, 0)

\* buildScope / the scope loop of prepareCurrentVar: later entries overwrite
RECURSIVE buildScopeFrom(_, _, _)
buildScopeFrom(vs, i, scope) ==
    IF i > Len(vs) THEN scope
    ELSE buildScopeFrom(vs, i + 1,
             IF vs[i].resolved
             THEN [n \in DOMAIN scope \cup {vs[i].def.Name} |->
                       IF n = vs[i].def.Name THEN vs[i].value ELSE scope[n]]
             ELSE scope)

buildScope(vs) == buildScopeFrom(vs, 1, EmptyScope)

\* ------------------------------------------------------------------------
\* main_model.go: prepareCurrentVar
\* ------------------------------------------------------------------------

\* a tea.Cmd: nil, tea.Quit, or the closure that runs a shell command
CmdNone == [kind |-> "none", shellCmd |-> <<>>]
CmdQuit == [kind |-> "quit", shellCmd |-> <<>>]
CmdShell(c) == [kind |-> "shell", shellCmd |-> c]
CmdTick == [kind |-> "tick", shellCmd |-> <<>>]

\* vs.resolved = true; vs.value = value; m.varState.currentIdx++
resolveCurrent(vrs, value) ==
    [vrs EXCEPT !.vars[vrs.currentIdx + 1].resolved = TRUE,
                !.vars[vrs.currentIdx + 1].value = value,
                !.currentIdx = @ + 1]

\* the auto-continue test
shouldAutoContinue(auto, v) == auto /\ v.prefill # <<>> /\ ~v.skipAutoCont

\* prepareCurrentVar on st = [vrs, ti, scope, auto]: vrs is *m.varState, ti the text
\* input, scope m.selected.Scope, auto config.GetAutoContinue().  The result is the
\* set of the [vrs, ti, scope, cmd] it can end with.
RECURSIVE prepareCurrentVar(_)
prepareCurrentVar(st) ==
    LET vrs == st.vrs IN
    IF vrs.currentIdx >= Len(vrs.vars)
    THEN {[vrs |-> vrs, ti |-> st.ti, cmd |-> CmdQuit,
           scope |-> buildScopeFrom(vrs.vars, 1, st.scope)]}
    ELSE
    LET i == vrs.currentIdx + 1
        v == vrs.vars[i]
        scope == buildScope(vrs.vars)
    IN
    UNION {
        IF sel = 0 /\ Len(v.variants) > 0
                   /\ \A k \in 1..Len(v.variants) : v.variants[k].Condition # <<>>
        THEN prepareCurrentVar([st EXCEPT !.vrs = resolveCurrent(vrs, <<>>)])
        ELSE
        LET def == IF sel = 0 THEN v.def ELSE v.variants[sel]
            vrs1 == [vrs EXCEPT !.vars[i].def = def]
        IN
        IF shouldAutoContinue(st.auto, v)
        THEN prepareCurrentVar([st EXCEPT !.vrs = resolveCurrent(vrs1, v.prefill)])
        ELSE
        LET vrs2 == [vrs1 EXCEPT !.customHeader = extractCustomHeader(def.Args),
                                 !.selectOpts = parseSelectorOpts(def.Args)]
        IN
        IF def.Literal # <<>>
        THEN UNION {prepareCurrentVar([st EXCEPT !.vrs = resolveCurrent(vrs2, result)])
                    : result \in SubstituteVars(def.Literal, scope)}
        ELSE IF TrimSpace(def.Shell) = <<>>
        THEN {[vrs |-> [vrs2 EXCEPT !.isPromptOnly = TRUE, !.options = <<>>, !.filtered = <<>>],
               ti |-> IF v.prefill # <<>> THEN v.prefill ELSE st.ti,
               cmd |-> CmdNone,
               scope |-> st.scope]}
        ELSE {[vrs |-> vrs2, ti |-> st.ti, cmd |-> CmdShell(shellCmd), scope |-> st.scope]
              : shellCmd \in SubstituteVars(def.Shell, scope)}
        : sel \in selectVariant(v.variants, scope)}

\* ------------------------------------------------------------------------
\* main_model.go: --match (findMatchingCheat, buildMatchPattern, prefillScopeFromMatch)
\* ------------------------------------------------------------------------

\* \w of the regexp package
isWordChar(c) == c \in Lower \/ c \in Upper \/ c \in Digit \/ c = "_"

RECURSIVE WordEnd(_, _)
WordEnd(s, j) == IF j <= Len(s) /\ isWordChar(s[j]) THEN WordEnd(s, j + 1) ELSE j

\* elements of the compiled pattern
PatLit(c)  == [kind |-> "lit", ch |-> c]
PatWs      == [kind |-> "ws", ch |-> " "]       \* \s*
PatAny     == [kind |-> "S", ch |-> " "]        \* (\S+)
PatDQ      == [kind |-> "DQ", ch |-> "\""]      \* ([^"]*)
PatSQ      == [kind |-> "SQ", ch |-> "'"]       \* ([^']*)

\* buildMatchPattern without the anchors: "$name" and '$name' become a quoted
\* group, any other $name becomes (\S+), every other character matches itself
RECURSIVE buildMatchPatternFrom(_, _)
buildMatchPatternFrom(cmd, i) ==
    IF i > Len(cmd) THEN <<>>
    ELSE LET c == cmd[i]
             quoted == /\ c \in {"\"", "'"}
                       /\ i + 2 <= Len(cmd) /\ cmd[i + 1] = "$"
                       /\ WordEnd(cmd, i + 2) > i + 2
                       /\ WordEnd(cmd, i + 2) <= Len(cmd)
                       /\ cmd[WordEnd(cmd, i + 2)] = c
         IN
         IF quoted
         THEN <<PatLit(c), IF c = "\"" THEN PatDQ ELSE PatSQ, PatLit(c)>>
              \o buildMatchPatternFrom(cmd, WordEnd(cmd, i + 2) + 1)
         ELSE IF c = "$" /\ WordEnd(cmd, i + 1) > i + 1
         THEN <<PatAny>> \o buildMatchPatternFrom(cmd, WordEnd(cmd, i + 1))
         ELSE <<PatLit(c)>> \o buildMatchPatternFrom(cmd, i + 1)

buildMatchPattern(cmd) == <<PatWs>> \o buildMatchPatternFrom(cmd, 1) \o <<PatWs>>

InClass(e, c) ==
    CASE e.kind = "ws" -> c \in Space
      [] e.kind = "S"  -> c \notin Space
      [] e.kind = "DQ" -> c # "\""
      [] e.kind = "SQ" -> c # "'"

RECURSIVE RunLen(_, _, _)
RunLen(e, inp, ii) == IF ii <= Len(inp) /\ InClass(e, inp[ii]) THEN 1 + RunLen(e, inp, ii + 1) ELSE 0

\* FindStringSubmatch of the anchored pattern: <<>> for no match, else <<groups>>;
\* a group takes the longest run that lets the rest match
RECURSIVE matchFrom(_, _, _, _, _)
RECURSIVE matchGroup(_, _, _, _, _, _)
matchFrom(pat, pi, inp, ii, groups) ==
    IF pi > Len(pat) THEN (IF ii > Len(inp) THEN <<groups>> ELSE <<>>)
    ELSE IF pat[pi].kind = "lit"
         THEN IF ii <= Len(inp) /\ inp[ii] = pat[pi].ch
              THEN matchFrom(pat, pi + 1, inp, ii + 1, groups)
              ELSE <<>>
         ELSE matchGroup(pat, pi, inp, ii, groups, RunLen(pat[pi], inp, ii))

matchGroup(pat, pi, inp, ii, groups, n) ==
    IF n < (IF pat[pi].kind = "S" THEN 1 ELSE 0) THEN <<>>
    ELSE LET r == matchFrom(pat, pi + 1, inp, ii + n,
                            IF pat[pi].kind = "ws" THEN groups
                            ELSE Append(groups, SubSeq(inp, ii, ii + n - 1)))
         IN  IF r # <<>> THEN r ELSE matchGroup(pat, pi, inp, ii, groups, n - 1)

FindStringSubmatch(pat, inp) == matchFrom(pat, 1, inp, 1, <<>>)

\* extractVarNames: the names after $ in order of appearance, without repeats
RECURSIVE extractVarNamesFrom(_, _, _)
extractVarNamesFrom(cmd, i, acc) ==
    IF i > Len(cmd) THEN acc
    ELSE IF cmd[i] = "$" /\ WordEnd(cmd, i + 1) > i + 1
         THEN extractVarNamesFrom(cmd, WordEnd(cmd, i + 1),
                                  AppendNew(acc, SubSeq(cmd, i + 1, WordEnd(cmd, i + 1) - 1)))
         ELSE extractVarNamesFrom(cmd, i + 1, acc)

extractVarNames(cmd) == extractVarNamesFrom(cmd, 1, <<>>)

\* cheat.Scope[name] = value
ScopeSet(scope, name, value) ==
    [n \in DOMAIN scope \cup {name} |-> IF n = name THEN value ELSE scope[n]]

RECURSIVE assignGroups(_, _, _, _)
assignGroups(scope, names, groups, i) ==
    IF i > Len(names) THEN scope
    ELSE assignGroups(IF i <= Len(groups) THEN ScopeSet(scope, names[i], groups[i]) ELSE scope,
                      names, groups, i + 1)

\* prefillScopeFromMatch: the scope of the cheat afterwards
prefillScopeFromMatch(command, scope, input) ==
    LET matches == FindStringSubmatch(buildMatchPattern(command), TrimSpace(input)) IN
    IF matches = <<>> THEN scope
    ELSE assignGroups(scope, extractVarNames(command), matches[1], 1)

\* findMatchingCheat: the index of the first cheat whose pattern matches, 0 for nil
RECURSIVE findMatchingCheatFrom(_, _, _)
findMatchingCheatFrom(cheats, input, i) ==
    IF i > Len(cheats) THEN 0
    ELSE IF FindStringSubmatch(buildMatchPattern(cheats[i].Command), input) # <<>> THEN i
    ELSE findMatchingCheatFrom(cheats, input, i + 1)

findMatchingCheat(cheats, input) ==
    IF TrimSpace(input) = <<>> THEN 0 ELSE findMatchingCheatFrom(cheats, TrimSpace(input), 1)

\* ------------------------------------------------------------------------
\* executor.go
\* ------------------------------------------------------------------------

\* the results BuildFinalCommand can return
BuildFinalCommand(command, scope) ==
    {ReplaceAll(r, <<"\\", "$">>, <<"$">>) : r \in SubstituteVars(command, scope)}

\* splitLines
RECURSIVE nonEmptyTrimmed(_)
nonEmptyTrimmed(lines) ==
    IF lines = <<>> THEN <<>>
    ELSE IF TrimSpace(Head(lines)) # <<>>
         THEN <<TrimSpace(Head(lines))>> \o nonEmptyTrimmed(Tail(lines))
         ELSE nonEmptyTrimmed(Tail(lines))

splitLines(s) == nonEmptyTrimmed(Split(s, <<"\n">>))

\* ------------------------------------------------------------------------
\* The index the selector runs on, and its surroundings
\* ------------------------------------------------------------------------

Name_m     == <<"m">>
Name_flags == <<"f","l","a","g","s">>
Name_cred  == <<"c","r","e","d">>
Name_a     == <<"a">>
Name_l     == <<"l">>
Name_s     == <<"s">>
Name_c     == <<"c">>
Name_role  == <<"r","o","l","e">>
Name_grp   == <<"g","r","p">>
Name_user  == <<"u","s","e","r">>
Name_host  == <<"h","o","s","t">>

ShellPrintfKP   == <<"p","r","i","n","t","f"," ","'","k","\\","n","p","'">>
ShellGetentTab  == <<"g","e","t","e","n","t"," ","-","t">>
ShellGetent     == <<"g","e","t","e","n","t">>
MapCutTab       == <<"c","u","t"," ","-","f","1">>
MapCutColon     == <<"c","u","t"," ","-","d",":"," ","-","f","1">>

\*   x $flags             var m = printf 'k\np'
\*                        if $m == k / var flags := --kerberos / fi
\*                        if $m == p / var flags := --pass $cred / fi
\*                        var cred
CheatFlags ==
    Cheat(<<"x"," ","$","f","l","a","g","s">>, <<>>,
          <<VarDef(Name_m, ShellPrintfKP, <<>>, <<>>, <<>>),
            VarDef(Name_flags, <<>>, <<"-","-","k","e","r","b","e","r","o","s">>, <<>>, <<"$","m"," ","=","="," ","k">>),
            VarDef(Name_flags, <<>>, <<"-","-","p","a","s","s"," ","$","c","r","e","d">>, <<>>, <<"$","m"," ","=","="," ","p">>),
            VarDef(Name_cred, <<>>, <<>>, <<>>, <<>>)>>)

\*   $a $l $s $c          var a
\*                        var l := <$a>
\*                        var l := U
\*                        if $a == k / var l := K$a / fi
\*                        if $a / var l := N / fi
\*                        if $a == k / var s / fi
\*                        var c
CheatBack ==
    Cheat(<<"$","a"," ","$","l"," ","$","s"," ","$","c">>, <<>>,
          <<VarDef(Name_a, <<>>, <<>>, <<>>, <<>>),
            VarDef(Name_l, <<>>, <<"<","$","a",">">>, <<>>, <<>>),
            VarDef(Name_l, <<>>, <<"U">>, <<>>, <<>>),
            VarDef(Name_l, <<>>, <<"K","$","a">>, <<>>, <<"$","a"," ","=","="," ","k">>),
            VarDef(Name_l, <<>>, <<"N">>, <<>>, <<"$","a">>),
            VarDef(Name_s, <<>>, <<>>, <<>>, <<"$","a"," ","=","="," ","k">>),
            VarDef(Name_c, <<>>, <<>>, <<>>, <<>>)>>)

\*   u $role              var role = getent -t --- --delimiter "\t" --column 2 --map "cut -f1"
CheatRoleTab ==
    Cheat(<<"u"," ","$","r","o","l","e">>, <<>>,
          <<VarDef(Name_role, ShellGetentTab, <<>>,
                   <<"-","-","d","e","l","i","m","i","t","e","r"," ","\"","\\","t","\""," ","-","-","c","o","l","u","m","n"," ","2"," ","-","-","m","a","p"," ","\"","c","u","t"," ","-","f","1","\"">>, <<>>)>>)

\*   v $grp               var grp = getent --- --delimiter : --column 2 --map "cut -d: -f1"
CheatRoleColon ==
    Cheat(<<"v"," ","$","g","r","p">>, <<>>,
          <<VarDef(Name_grp, ShellGetent, <<>>,
                   <<"-","-","d","e","l","i","m","i","t","e","r"," ",":"," ","-","-","c","o","l","u","m","n"," ","2"," ","-","-","m","a","p"," ","\"","c","u","t"," ","-","d",":"," ","-","f","1","\"">>, <<>>)>>)

\*   ssh $user@$host      (no annotation block)
CheatSsh == Cheat(<<"s","s","h"," ","$","u","s","e","r","@","$","h","o","s","t">>, <<>>, <<>>)

\*   id                   (no variable)
CheatId == Cheat(<<"i","d">>, <<>>, <<>>)

\*   w $m $role           var m = printf 'k\np'
\*                        var role = getent -t
CheatPair ==
    Cheat(<<"w"," ","$","m"," ","$","r","o","l","e">>, <<>>,
          <<VarDef(Name_m, ShellPrintfKP, <<>>, <<>>, <<>>),
            VarDef(Name_role, ShellGetentTab, <<>>, <<>>, <<>>)>>)

\* index.Cheats
Cheats == <<CheatFlags, CheatBack, CheatRoleTab, CheatRoleColon, CheatSsh, CheatId, CheatPair>>

\* the index of a cheat in index.Cheats
CheatIdx(cheat) == CHOOSE i \in DOMAIN Cheats : Cheats[i] = cheat

\* what phase 1 searches besides the command: the folder and the file name of the
\* cheat's file, its header and its description
CheatItems ==
    <<[folder |-> <<"a","d">>, file |-> <<"a","u","t","h">>, Header |-> <<"L","o","g","i","n">>, Description |-> <<>>],
      [folder |-> <<"m","i","s","c">>, file |-> <<"b","a","c","k">>, Header |-> <<"C","h","a","i","n">>, Description |-> <<>>],
      [folder |-> <<"a","d">>, file |-> <<"r","o","l","e">>, Header |-> <<"R","o","l","e">>, Description |-> <<>>],
      [folder |-> <<"a","d">>, file |-> <<"r","o","l","e">>, Header |-> <<"R","o","l","e","2">>, Description |-> <<>>],
      [folder |-> <<"n","e","t">>, file |-> <<"s","s","h">>, Header |-> <<"R","e","m","o","t","e">>, Description |-> <<>>],
      [folder |-> <<"m","i","s","c">>, file |-> <<"w","h","o">>, Header |-> <<"W","h","o">>, Description |-> <<>>],
      [folder |-> <<"t","o","p">>, file |-> <<"d","u","o">>, Header |-> <<"D","u","o">>, Description |-> <<>>]>>

\* index.Modules
Modules == [m \in {} |-> Module(<<>>, <<>>)]

\* what --match is given: nothing, or a command line
MatchInputs == {<<>>, <<"s","s","h"," ","a","l","@","e","x">>, <<"k"," ","l"," ","s"," ","c">>, <<"s","s","h">>, <<"i","d">>,
                <<"v"," ","a","d">>}

\* what the positional query argument is: nothing, or a word
InitialQueries == {<<>>, <<"r","o","l","e","2">>}

\* the environment the process runs in
Environments ==
    {(Name_user :> <<"r">>) @@ (Name_flags :> <<"e">>) @@ (Name_grp :> <<"e">>)}

\* os.Getenv
Getenv(env, name) == IF name \in DOMAIN env THEN env[name] ELSE <<>>

\* the characters the user types
TypedChars == {"k"}

\* the longest text the user types into the input
MaxInput == 1

\* the number of shell commands that may be running at once
MaxInflight == 1

\* the number of messages that reach the program after a handler has returned
\* tea.Quit and before the QuitMsg does
MaxLate == 1

\* the number of filter ticks that may be pending at once
MaxTicks == 2

\* the characters the user types into the query of phase 1, and the longest query
QueryChars == {"a", "s"}

MaxQuery == 2

\* the heights a tea.WindowSizeMsg brings
Heights == {12, 14}

\* Executor.RunShell: what the command can come back with.  err stands for a
\* non-zero exit or an I/O error, output for the trimmed standard output.
ShellOk(text) == [err |-> FALSE, output |-> text]
ShellFailed   == [err |-> TRUE, output |-> <<>>]

RunShell(shellCmd) ==
    IF shellCmd = ShellPrintfKP THEN {ShellOk(<<"k","\n","p">>)}
    ELSE IF shellCmd = ShellGetentTab
         THEN {ShellFailed, ShellOk(<<>>), ShellOk(<<"a","d","\t","A","d">>), ShellOk(<<"a","d","\t","A","d","\n","g","u","\t","G","u">>)}
    ELSE IF shellCmd = ShellGetent
         THEN {ShellFailed, ShellOk(<<>>), ShellOk(<<"a","d",":","A","d">>), ShellOk(<<"a","d",":","A","d","\n","g","u",":","G","u">>)}
    ELSE {ShellFailed}

\* sh -c mapCmd with value on its standard input: cut prints the first field of
\* the line, the whole line when it holds no delimiter; any other command fails
RunMap(value, mapCmd) ==
    IF mapCmd = MapCutTab THEN ShellOk(Split(value, <<"\t">>)[1])
    ELSE IF mapCmd = MapCutColon THEN ShellOk(Split(value, <<":">>)[1])
    ELSE ShellFailed

\* applyMapTransformCmd
applyMapTransformCmd(value, mapCmd) ==
    IF mapCmd = <<>> THEN value
    ELSE LET r == RunMap(value, mapCmd) IN
         IF r.err THEN value ELSE TrimSpace(r.output)

\* applyMapTransform
applyMapTransform(value, opts) ==
    IF opts.MapCmd = <<>> THEN value
    ELSE LET r == RunMap(value, opts.MapCmd) IN
         IF r.err THEN value ELSE TrimSpace(r.output)

\* ------------------------------------------------------------------------
\* main_model.go: the handlers of mainModel
\* ------------------------------------------------------------------------

\* The mainModel a handler works on, with the Scope maps its cheats point to.
Model ==
    [phase |-> phase, quitting |-> quitting, selected |-> selected, cursor |-> cursor,
     offset |-> offset, textInput |-> textInput, filtered |-> filtered, height |-> height,
     varState |-> varState, scopes |-> cheatScope]

\* How a handler ends: the model it leaves, the tea.Cmd it returns, or a run-time
\* panic (an index out of range, a nil pointer dereference).
Returns(m, cmd) == [m |-> m, cmd |-> cmd, panic |-> FALSE]
Panics(m)       == [m |-> m, cmd |-> CmdNone, panic |-> TRUE]

\* maxInt(m.height-10, 3)
viewHeight(m) == Max(m.height - 10, 3)

\* adjustOffset
adjustOffset(m) ==
    LET o1 == IF m.cursor < m.offset THEN m.cursor ELSE m.offset
        o2 == IF m.cursor >= o1 + viewHeight(m) THEN m.cursor - viewHeight(m) + 1 ELSE o1
    IN  [m EXCEPT !.offset = clamp(o2, 0, Max(0, Len(m.filtered) - viewHeight(m)))]

\* moveCursor
moveCursor(m, delta) ==
    adjustOffset([m EXCEPT !.cursor = clamp(m.cursor + delta, 0, Max(0, Len(m.filtered) - 1))])

\* containsIgnoreCase
containsIgnoreCase(str, substr) ==
    IF ByteLen(substr) > ByteLen(str) THEN FALSE ELSE Contains(ToLower(str), substr)

\* cheatItem.containsWord
containsWord(item, word) ==
    \/ containsIgnoreCase(item.folder, word)
    \/ containsIgnoreCase(item.file, word)
    \/ containsIgnoreCase(item.Header, word)
    \/ containsIgnoreCase(item.Description, word)
    \/ containsIgnoreCase(item.Command, word)

\* cheatItem.matchesQuery
matchesQuery(item, words) == \A k \in 1..Len(words) : containsWord(item, words[k])

\* mainModel.cheats: newCheatItem of every cheat of the index
mainModelCheats ==
    [i \in DOMAIN Cheats |->
        [folder |-> CheatItems[i].folder, file |-> CheatItems[i].file,
         Header |-> CheatItems[i].Header, Description |-> CheatItems[i].Description,
         Command |-> Cheats[i].Command]]

\* the most cheats filterCheats lists for a query
FilterCap == 1000

\* the loop of filterCheats: the cheats that match are appended, in the order of
\* the index, and the loop ends when the list has FilterCap entries
cheatsMatching(cheats, words) ==
    LET Matches(i) == matchesQuery(cheats[i], words)
        all == SelectSeq([i \in 1..Len(cheats) |-> i], Matches)
    IN  IF Len(all) >= FilterCap THEN SubSeq(all, 1, FilterCap) ELSE all

\* filterCheats with a fault: the list is replaced, the cursor and the offset are
\* left as they were
filterCheatsUnclamped(cheats, m) ==
    LET query == TrimSpace(m.textInput) IN
    [m EXCEPT !.filtered = IF query = <<>> THEN [i \in 1..Len(cheats) |-> i]
                           ELSE cheatsMatching(cheats, Fields(ToLower(query)))]

\* filterCheats of a model whose cheats are the list given
filterCheatsOf(cheats, m) ==
    LET query == TrimSpace(m.textInput)
        list == IF query = <<>> THEN [i \in 1..Len(cheats) |-> i]
                ELSE cheatsMatching(cheats, Fields(ToLower(query)))
        m1 == [m EXCEPT !.filtered = list]
    IN  adjustOffset([m1 EXCEPT !.cursor = clamp(m.cursor, 0, Max(0, Len(list) - 1))])

\* filterCheats
filterCheats(m) == filterCheatsOf(mainModelCheats, m)

\* the prefill loop with a fault: the value of the scope becomes the prefill, skipAutoCont is not set
prefillVarsNoSkip(vs, scope, env) ==
    [i \in 1..Len(vs) |->
        LET varName == vs[i].def.Name IN
        IF varName \in DOMAIN scope /\ scope[varName] # <<>>
        THEN [vs[i] EXCEPT !.prefill = scope[varName]]
        ELSE IF Getenv(env, varName) # <<>>
        THEN [vs[i] EXCEPT !.prefill = Getenv(env, varName)]
        ELSE vs[i]]

\* the prefill loop of startVarResolutionInternal
prefillVars(vs, scope, env) ==
    [i \in 1..Len(vs) |->
        LET varName == vs[i].def.Name IN
        IF varName \in DOMAIN scope /\ scope[varName] # <<>>
        THEN [vs[i] EXCEPT !.prefill = scope[varName], !.skipAutoCont = TRUE]
        ELSE IF Getenv(env, varName) # <<>>
        THEN [vs[i] EXCEPT !.prefill = Getenv(env, varName)]
        ELSE vs[i]]

\* &varResolveState{cheat: cheat, vars: vars, currentIdx: 0}
newVarResolveState(vs) ==
    [vars |-> vs, currentIdx |-> 0, options |-> <<>>, filtered |-> <<>>,
     selectOpts |-> NoSelectOpts, customHeader |-> <<>>, shellErr |-> FALSE,
     isPromptOnly |-> FALSE]

\* startVarResolutionInternal
startVarResolutionInternal(m, env) ==
    IF m.selected = 0 THEN m
    ELSE LET vs == collectVariables(Cheats[m.selected], Modules) IN
         IF Len(vs) = 0 THEN m
         ELSE [m EXCEPT !.varState = <<newVarResolveState(prefillVars(vs, m.scopes[m.selected], env))>>,
                        !.phase = "varResolve",
                        !.textInput = <<>>, !.cursor = 0, !.offset = 0]

\* m.prepareCurrentVar(): the nil test, then prepareCurrentVar above.  Copying the
\* values into m.selected.Scope dereferences m.selected.
callPrepareCurrentVar(m, auto) ==
    IF m.varState = <<>> THEN {Returns(m, CmdQuit)}
    ELSE {IF r.cmd = CmdQuit /\ m.selected = 0
          THEN Panics(m)
          ELSE Returns([m EXCEPT !.varState = <<r.vrs>>, !.textInput = r.ti,
                                 !.scopes = IF m.selected = 0 THEN @
                                            ELSE [@ EXCEPT ![m.selected] = r.scope]],
                       r.cmd)
          : r \in prepareCurrentVar([vrs |-> m.varState[1], ti |-> m.textInput,
                                     scope |-> IF m.selected = 0 THEN EmptyScope
                                               ELSE m.scopes[m.selected],
                                     auto |-> auto])}

\* startVarResolution
startVarResolution(m, env, auto) ==
    LET m1 == startVarResolutionInternal(m, env) IN
    IF m1.phase # "varResolve" THEN {Returns(m1, CmdQuit)}
    ELSE callPrepareCurrentVar(m1, auto)

\* one entry of varState.filtered (searchText is the lower-cased display)
filteredVarOption(opt, opts) ==
    [display |-> getDisplayColumn(opt, opts.Delimiter, opts.Column), original |-> opt]

\* buildVarFilteredList
buildVarFilteredList(vrs) ==
    [vrs EXCEPT !.filtered = [i \in 1..Len(vrs.options) |->
                                  filteredVarOption(vrs.options[i], vrs.selectOpts)]]

\* the loop of filterVarOptions over the options
RECURSIVE optionsMatching(_, _, _)
optionsMatching(options, opts, words) ==
    IF options = <<>> THEN <<>>
    ELSE LET fo == filteredVarOption(Head(options), opts)
             rest == optionsMatching(Tail(options), opts, words)
         IN  IF \A k \in 1..Len(words) : Contains(ToLower(fo.display), words[k])
             THEN <<fo>> \o rest ELSE rest

\* filterVarOptions
filterVarOptions(m) ==
    IF m.varState = <<>> THEN m
    ELSE IF m.varState[1].isPromptOnly THEN m
    ELSE LET vrs == m.varState[1]
             query == ToLower(TrimSpace(m.textInput))
             vrs1 == IF query = <<>> THEN buildVarFilteredList(vrs)
                     ELSE [vrs EXCEPT !.filtered =
                               optionsMatching(vrs.options, vrs.selectOpts, Fields(query))]
         IN  [m EXCEPT !.varState = <<vrs1>>,
                       !.cursor = clamp(m.cursor, 0, Max(0, Len(vrs1.filtered) - 1))]

\* a shellResultMsg: err, or the lines splitLines made of the output
shellResultMsg(outcome) ==
    [err |-> outcome.err, options |-> IF outcome.err THEN <<>> ELSE splitLines(outcome.output)]

\* handleShellResult
handleShellResult(m, msg) ==
    IF m.varState = <<>> THEN Returns(m, CmdNone)
    ELSE LET vrs == m.varState[1] IN
    IF vrs.currentIdx >= Len(vrs.vars) THEN Panics(m)
    ELSE
    LET vs == vrs.vars[vrs.currentIdx + 1] IN
    IF msg.err
    THEN Returns([m EXCEPT !.varState = <<[vrs EXCEPT !.shellErr = TRUE, !.isPromptOnly = TRUE,
                                                      !.options = <<>>, !.filtered = <<>>]>>,
                           !.textInput = vs.prefill],
                 CmdNone)
    ELSE
    LET vrs1 == [vrs EXCEPT !.options = msg.options, !.shellErr = FALSE] IN
    IF Len(msg.options) = 0
    THEN Returns([m EXCEPT !.varState = <<[vrs1 EXCEPT !.isPromptOnly = TRUE]>>,
                           !.textInput = IF vs.prefill # <<>> THEN vs.prefill ELSE @],
                 CmdNone)
    ELSE IF Len(msg.options) = 1
    THEN Returns([m EXCEPT !.varState = <<[vrs1 EXCEPT !.isPromptOnly = TRUE]>>,
                           !.textInput = IF vs.prefill # <<>> THEN vs.prefill
                                         ELSE applyMapTransform(msg.options[1], vrs.selectOpts)],
                 CmdNone)
    ELSE
    LET m1 == [m EXCEPT !.varState = <<buildVarFilteredList([vrs1 EXCEPT !.isPromptOnly = FALSE])>>,
                        !.textInput = IF vs.prefill # <<>> THEN vs.prefill ELSE @]
        m2 == filterVarOptions(m1)
    IN  Returns([m2 EXCEPT !.cursor = 0, !.offset = 0], CmdNone)

\* moveVarCursor
moveVarCursor(m, delta) ==
    IF m.varState = <<>> THEN m
    ELSE LET n == Len(m.varState[1].filtered)
             c == clamp(m.cursor + delta, 0, Max(0, n - 1))
             o1 == IF c < m.offset THEN c ELSE m.offset
             o2 == IF c >= o1 + viewHeight(m) THEN c - viewHeight(m) + 1 ELSE o1
         IN  [m EXCEPT !.cursor = c, !.offset = clamp(o2, 0, Max(0, n - viewHeight(m)))]

\* acceptVarValue, the select-column step: the column of the chosen line
selectColumn(line, opts) ==
    IF opts.Column > 0 /\ opts.Delimiter # <<>>
    THEN LET parts == Split(line, opts.Delimiter) IN
         IF opts.Column <= Len(parts) THEN TrimSpace(parts[opts.Column]) ELSE line
    ELSE line

\* acceptVarValue, the value of a line chosen from the list
listValue(line, opts) ==
    LET col == selectColumn(line, opts) IN
    IF opts.MapCmd # <<>> THEN applyMapTransformCmd(col, opts.MapCmd) ELSE col

\* acceptVarValue
acceptVarValue(m, auto) ==
    IF m.varState = <<>> THEN {Returns(m, CmdQuit)}
    ELSE LET vrs == m.varState[1] IN
    IF vrs.currentIdx >= Len(vrs.vars) THEN {Panics(m)}
    ELSE
    LET value == IF vrs.isPromptOnly THEN m.textInput
                 ELSE IF m.cursor < Len(vrs.filtered)
                      THEN listValue(vrs.filtered[m.cursor + 1].original, vrs.selectOpts)
                 ELSE m.textInput
    IN  callPrepareCurrentVar([m EXCEPT !.varState = <<resolveCurrent(vrs, value)>>,
                                        !.textInput = <<>>, !.cursor = 0, !.offset = 0],
                              auto)

\* the keys the handlers tell apart; Rune(c) is a printable character
KeyCtrlC == [key |-> "ctrl+c", delta |-> 0, rune |-> ""]
KeyEsc   == [key |-> "esc", delta |-> 0, rune |-> ""]
KeyEnter == [key |-> "enter", delta |-> 0, rune |-> ""]
KeyTab   == [key |-> "tab", delta |-> 0, rune |-> ""]
KeyHome  == [key |-> "home", delta |-> 0, rune |-> ""]
KeyEnd   == [key |-> "end", delta |-> 0, rune |-> ""]
KeyMove(d) == [key |-> "move", delta |-> d, rune |-> ""]
KeyRune(c) == [key |-> "rune", delta |-> 0, rune |-> c]
KeyBackspace == [key |-> "backspace", delta |-> 0, rune |-> ""]

\* up / down / pgup / pgdown
MoveDeltas == {-1, 1, -10, 10}

\* the "esc" case with a fault: the variable gone back to keeps its value and its mark
escVarResolveKeep(m, auto) ==
    LET vrs == m.varState[1] IN
    IF vrs.currentIdx > 0
    THEN LET i == vrs.currentIdx
             vrs1 == [vrs EXCEPT !.currentIdx = @ - 1, !.vars[i].skipAutoCont = TRUE]
         IN  callPrepareCurrentVar([m EXCEPT !.varState = <<vrs1>>, !.textInput = <<>>,
                                             !.cursor = 0, !.offset = 0],
                                   auto)
    ELSE {Returns([m EXCEPT !.phase = "cheatSelect", !.varState = <<>>, !.selected = 0,
                            !.textInput = <<>>, !.cursor = 0, !.offset = 0],
                  CmdNone)}

\* handleVarResolveKey, case "esc"
escVarResolve(m, auto) ==
    LET vrs == m.varState[1] IN
    IF vrs.currentIdx > 0
    THEN LET i == vrs.currentIdx
             vrs1 == [vrs EXCEPT !.currentIdx = @ - 1,
                                 !.vars[i].resolved = FALSE,
                                 !.vars[i].value = <<>>,
                                 !.vars[i].skipAutoCont = TRUE]
         IN  callPrepareCurrentVar([m EXCEPT !.varState = <<vrs1>>, !.textInput = <<>>,
                                             !.cursor = 0, !.offset = 0],
                                   auto)
    ELSE {Returns([m EXCEPT !.phase = "cheatSelect", !.varState = <<>>, !.selected = 0,
                            !.textInput = <<>>, !.cursor = 0, !.offset = 0],
                  CmdNone)}

\* handleVarResolveKey
handleVarResolveKey(m, k, auto) ==
    IF k.key = "ctrl+c" THEN {Returns([m EXCEPT !.quitting = TRUE, !.selected = 0], CmdQuit)}
    ELSE IF k.key = "esc" THEN escVarResolve(m, auto)
    ELSE IF k.key = "enter" THEN acceptVarValue(m, auto)
    ELSE IF k.key = "move"
         THEN {Returns(IF ~m.varState[1].isPromptOnly THEN moveVarCursor(m, k.delta) ELSE m, CmdNone)}
    ELSE IF k.key = "tab"
         THEN {Returns(IF ~m.varState[1].isPromptOnly /\ m.cursor < Len(m.varState[1].filtered)
                       THEN [m EXCEPT !.textInput = m.varState[1].filtered[m.cursor + 1].display]
                       ELSE m,
                       CmdNone)}
    ELSE {Returns(m, CmdNone)}

\* textinput.Model.Update: a rune is inserted at the cursor, which is at the end
\* of the text, Backspace deletes the character before it; the other keys of the
\* handlers leave the text alone
textInputUpdate(ti, k) ==
    IF k.key = "rune" THEN Append(ti, k.rune)
    ELSE IF k.key = "backspace" /\ ti # <<>> THEN SubSeq(ti, 1, Len(ti) - 1)
    ELSE ti

\* updateVarResolve on a key
updateVarResolveKey(m, k, auto) ==
    {IF r.panic \/ r.cmd # CmdNone THEN r
     ELSE LET m1 == [r.m EXCEPT !.textInput = textInputUpdate(@, k)] IN
          IF m1.textInput # r.m.textInput /\ ~m1.varState[1].isPromptOnly
          THEN Returns(filterVarOptions(m1), CmdNone)
          ELSE Returns(m1, CmdNone)
     : r \in handleVarResolveKey(m, k, auto)}

\* handleCheatSelectKey
handleCheatSelectKey(m, k, env, auto) ==
    IF k.key \in {"ctrl+c", "esc"} THEN {Returns([m EXCEPT !.quitting = TRUE], CmdQuit)}
    ELSE IF k.key = "enter"
         THEN IF m.cursor < Len(m.filtered)
              THEN startVarResolution([m EXCEPT !.selected = m.filtered[m.cursor + 1]], env, auto)
              ELSE {Returns(m, CmdNone)}
    ELSE IF k.key = "move" THEN {Returns(moveCursor(m, k.delta), CmdNone)}
    ELSE IF k.key = "home" THEN {Returns([m EXCEPT !.cursor = 0], CmdNone)}
    ELSE IF k.key = "end" THEN {Returns([m EXCEPT !.cursor = Max(0, Len(m.filtered) - 1)], CmdNone)}
    ELSE {Returns(m, CmdNone)}

\* updateCheatSelect on a key: the text input sees the keys handleCheatSelectKey
\* returns no command for, and a change of the query schedules a filter tick
updateCheatSelectKey(m, k, env, auto) ==
    {IF r.panic \/ r.cmd # CmdNone THEN r
     ELSE LET m1 == [r.m EXCEPT !.textInput = textInputUpdate(@, k)] IN
          IF m1.textInput # r.m.textInput THEN Returns(m1, CmdTick) ELSE Returns(m1, CmdNone)
     : r \in handleCheatSelectKey(m, k, env, auto)}

\* Update on a filterMsg with a fault: the list is the filter of the query as it
\* was one character before
updateFilterMsgOlder(m) ==
    IF m.phase = "varResolve" THEN Returns(m, CmdNone)
    ELSE Returns([filterCheats([m EXCEPT !.textInput = SubSeq(@, 1, Len(@) - 1)])
                     EXCEPT !.textInput = m.textInput],
                 CmdNone)

\* Update on a filterMsg: updateCheatSelect filters, updateVarResolve hands the
\* message to the text input, which ignores it
updateFilterMsg(m) ==
    IF m.phase = "varResolve" THEN Returns(m, CmdNone) ELSE Returns(filterCheats(m), CmdNone)

\* Update on a tea.WindowSizeMsg: the height is kept, the handler of the phase
\* hands the message to the text input
updateWindowSize(m, h) == Returns([m EXCEPT !.height = h], CmdNone)

\* ------------------------------------------------------------------------
\* The selector: RunTUI, the bubbletea program around mainModel, and the user
\* ------------------------------------------------------------------------

\* what lastEvent records of a handler: its kind ("start", "select", "enter", "esc",
\* "shell", "return", and "key" for the other keys); for a shellResultMsg whether
\* the user had left the variable it was started for (stale) and the message; for
\* an Enter in phase 2 the line chosen from the list (picked, <<>> if none)
NoMsg == [err |-> FALSE, options |-> <<>>]
Event(kind) == [kind |-> kind, stale |-> FALSE, msg |-> NoMsg, picked |-> <<>>]

\* the variable View renders the prompt of, as a set: empty when none is rendered
promptOf(m) ==
    IF m.phase = "varResolve" /\ m.varState # <<>> /\ ~(m.quitting /\ m.selected = 0)
    THEN LET vrs == m.varState[1] IN
         IF vrs.currentIdx < Len(vrs.vars) THEN {vrs.vars[vrs.currentIdx + 1].def.Name} ELSE {}
    ELSE {}

\* the shell commands in flight once the user has left the current variable
leaveAll(fl) == [i \in DOMAIN fl |-> [fl[i] EXCEPT !.stale = TRUE]]

\* Update returns r: the program keeps the model, runs the command; fl and tk
\* are the commands in flight once the message handled is taken out
CommitFrom(at, r, ev, fl, seen, tk) ==
    /\ r.cmd.kind = "shell" => Len(fl) < MaxInflight
    /\ r.cmd.kind = "tick" => tk < MaxTicks
    /\ ticks' = IF r.cmd.kind = "tick" /\ ~r.panic THEN tk + 1 ELSE tk
    /\ pc' = IF r.panic THEN "panic" ELSE IF r.cmd.kind = "quit" THEN "quit" ELSE at
    /\ phase' = r.m.phase
    /\ quitting' = r.m.quitting
    /\ selected' = r.m.selected
    /\ cursor' = r.m.cursor
    /\ offset' = r.m.offset
    /\ textInput' = r.m.textInput
    /\ filtered' = r.m.filtered
    /\ height' = r.m.height
    /\ varState' = r.m.varState
    /\ cheatScope' = r.m.scopes
    /\ late' = IF at = "quit" THEN late + 1 ELSE 0
    /\ inflight' = IF r.cmd.kind = "shell" /\ ~r.panic
                   THEN Append(fl, [shellCmd |-> r.cmd.shellCmd, stale |-> FALSE])
                   ELSE fl
    /\ shown' = IF r.panic THEN seen ELSE seen \cup promptOf(r.m)
    /\ lastEvent' = ev
    /\ UNCHANGED <<autoContinue, environ, finalCmd, cvIn, cvOut>>

Commit(at, r, ev, fl, seen) == CommitFrom(at, r, ev, fl, seen, ticks)

\* RunTUI returns: executeOutput(exec.BuildFinalCommand(m.selected)), or nothing
Exit(m) ==
    /\ pc' = "done"
    /\ phase' = m.phase /\ quitting' = m.quitting /\ selected' = m.selected
    /\ cursor' = m.cursor /\ offset' = m.offset /\ textInput' = m.textInput
    /\ filtered' = m.filtered /\ height' = m.height /\ varState' = m.varState
    /\ cheatScope' = m.scopes
    /\ IF m.selected = 0
       THEN finalCmd' = <<>>
       ELSE \E c \in BuildFinalCommand(Cheats[m.selected].Command, m.scopes[m.selected]) :
                finalCmd' = <<c>>
    /\ lastEvent' = Event("return")
    /\ UNCHANGED <<late, inflight, ticks, shown, autoContinue, environ, cvIn, cvOut>>

\* RunTUI up to p.Run(), then mainModel.Init().  Init has a value receiver: what
\* prepareCurrentVar does to *m.varState and to the Scope map stays, what it does
\* to the text input is lost with the copy.
RunTUI ==
    /\ pc = "start"
    /\ \E initialQuery \in InitialQueries, matchCmd \in MatchInputs, autoSelect \in BOOLEAN :
       \E matched \in {IF matchCmd # <<>> THEN findMatchingCheat(Cheats, matchCmd) ELSE 0} :
       \E m1 \in {IF matched # 0
                  THEN startVarResolutionInternal(
                           [Model EXCEPT !.selected = matched,
                                         !.scopes[matched] =
                                             prefillScopeFromMatch(Cheats[matched].Command, @, matchCmd)],
                           environ)
                  ELSE Model} :
       \E query \in {IF matchCmd # <<>> /\ matched = 0 THEN matchCmd ELSE initialQuery} :
       \E m2 \in {IF query # <<>> THEN filterCheats([m1 EXCEPT !.textInput = query]) ELSE m1} :
       \E auto1 \in {query # <<>> /\ autoSelect /\ Len(m2.filtered) = 1} :
       \E m3 \in {IF auto1
                  THEN startVarResolutionInternal([m2 EXCEPT !.selected = m2.filtered[1]], environ)
                  ELSE m2} :
            IF matched # 0 /\ m1.phase # "varResolve" THEN Exit(m1)
            ELSE IF auto1 /\ m3.phase # "varResolve" THEN Exit(m3)
            ELSE IF m3.phase = "varResolve" /\ m3.varState # <<>>
            THEN \E r \in callPrepareCurrentVar(m3, autoContinue) :
                     Commit("loop", [r EXCEPT !.m.textInput = m3.textInput], Event("start"), <<>>, {})
            ELSE Commit("loop", Returns(m3, CmdNone), Event("start"), <<>>, {})

\* the program is delivering messages: tea.Quit only queues a QuitMsg, so the
\* messages that reach the program before it are still handled
Running == pc = "loop" \/ (pc = "quit" /\ late < MaxLate)

\* ---- phase 1 ----

\* Esc or Ctrl+C in phase 1
CheatSelectQuit ==
    /\ Running /\ phase = "cheatSelect"
    /\ \E k \in {KeyEsc, KeyCtrlC} : \E r \in updateCheatSelectKey(Model, k, environ, autoContinue) :
           Commit(pc, r, Event("key"), inflight, shown)

\* Enter in phase 1
CheatSelectEnter ==
    /\ Running /\ phase = "cheatSelect"
    /\ \E r \in updateCheatSelectKey(Model, KeyEnter, environ, autoContinue) :
           Commit(pc, r, Event("select"), leaveAll(inflight), {})

\* Up, Down, PgUp, PgDown, Home, End in phase 1
CheatSelectMove ==
    /\ Running /\ phase = "cheatSelect"
    /\ \E k \in {KeyMove(d) : d \in MoveDeltas} \cup {KeyHome, KeyEnd} :
           \E r \in updateCheatSelectKey(Model, k, environ, autoContinue) :
               Commit(pc, r, Event("key"), inflight, shown)

\* a printable character or Backspace in the query of phase 1
CheatSelectType ==
    /\ Running /\ phase = "cheatSelect"
    /\ \E k \in {KeyRune(c) : c \in {x \in QueryChars : Len(textInput) < MaxQuery}}
                 \cup {KeyBackspace} :
           \E r \in updateCheatSelectKey(Model, k, environ, autoContinue) :
               /\ r.m.textInput # textInput
               /\ Commit(pc, r, Event("type"), inflight, shown)

\* ---- phase 2 ----

\* Ctrl+C in phase 2
VarCtrlC ==
    /\ Running /\ phase = "varResolve"
    /\ \E r \in updateVarResolveKey(Model, KeyCtrlC, autoContinue) :
           Commit(pc, r, Event("key"), inflight, shown)

\* Esc in phase 2: the variable gone back to, and the ones after it, leave the
\* history of prompts
VarEsc ==
    /\ Running /\ phase = "varResolve"
    /\ \E r \in updateVarResolveKey(Model, KeyEsc, autoContinue) :
           LET vrs == varState[1] IN
           Commit(pc, r, Event("esc"), leaveAll(inflight),
                  shown \ {vrs.vars[i].def.Name : i \in Max(1, vrs.currentIdx)..Len(vrs.vars)})

\* Enter in phase 2
VarEnter ==
    /\ Running /\ phase = "varResolve"
    /\ \E r \in updateVarResolveKey(Model, KeyEnter, autoContinue) :
           LET vrs == varState[1]
               fromList == ~vrs.isPromptOnly /\ cursor < Len(vrs.filtered)
           IN  Commit(pc, r,
                      [Event("enter") EXCEPT !.picked = IF fromList THEN vrs.filtered[cursor + 1].original
                                                        ELSE <<>>],
                      leaveAll(inflight), shown)

\* Up, Down, PgUp, PgDown in phase 2
VarMove ==
    /\ Running /\ phase = "varResolve"
    /\ \E d \in MoveDeltas : \E r \in updateVarResolveKey(Model, KeyMove(d), autoContinue) :
           Commit(pc, r, Event("key"), inflight, shown)

\* Tab in phase 2
VarTab ==
    /\ Running /\ phase = "varResolve"
    /\ \E r \in updateVarResolveKey(Model, KeyTab, autoContinue) :
           Commit(pc, r, Event("key"), inflight, shown)

\* a printable character in phase 2
VarType ==
    /\ Running /\ phase = "varResolve"
    /\ Len(textInput) < MaxInput
    /\ \E c \in TypedChars : \E r \in updateVarResolveKey(Model, KeyRune(c), autoContinue) :
           Commit(pc, r, Event("key"), inflight, shown)

\* ---- messages ----

\* seq without its k-th element
RemoveAt(seq, k) == SubSeq(seq, 1, k - 1) \o SubSeq(seq, k + 1, Len(seq))

\* A shell command in flight ends and its shellResultMsg is handled: by
\* handleShellResult in phase 2, by nobody in phase 1.
ShellResult ==
    /\ Running
    /\ \E k \in DOMAIN inflight : \E outcome \in RunShell(inflight[k].shellCmd) :
           LET msg == shellResultMsg(outcome)
               r == IF phase = "varResolve" THEN handleShellResult(Model, msg)
                    ELSE Returns(Model, CmdNone)
           IN  Commit(pc, r,
                      [Event("shell") EXCEPT !.stale = inflight[k].stale, !.msg = msg],
                      RemoveAt(inflight, k), shown)

\* A tick of debounceFilter ends and its filterMsg is handled
FilterTick ==
    /\ Running /\ ticks > 0
    /\ CommitFrom(pc, updateFilterMsg(Model), Event("tick"), inflight, shown, ticks - 1)

\* The terminal is resized
WindowSize ==
    /\ Running
    /\ \E h \in Heights \ {height} :
           Commit(pc, updateWindowSize(Model, h), Event("resize"), inflight, shown)

\* The QuitMsg is handled: p.Run() returns the model and RunTUI finishes.
ProgramReturn ==
    /\ pc = "quit"
    /\ Exit(Model)

Init ==
    /\ pc = "start"
    /\ phase = "cheatSelect" /\ quitting = FALSE /\ selected = 0
    /\ cursor = 0 /\ offset = 0 /\ textInput = <<>>
    /\ filtered = [i \in 1..Len(Cheats) |-> i] /\ height = 0
    /\ varState = <<>>
    /\ cheatScope = [i \in 1..Len(Cheats) |-> EmptyScope]
    /\ late = 0 /\ inflight = <<>> /\ ticks = 0
    /\ autoContinue \in BOOLEAN
    /\ environ \in Environments
    /\ finalCmd = <<>> /\ shown = {} /\ lastEvent = Event("none")
    /\ cvIn = <<>> /\ cvOut = <<>>

Next ==
    \/ RunTUI
    \/ CheatSelectQuit \/ CheatSelectEnter \/ CheatSelectMove
    \/ VarCtrlC \/ VarEsc \/ VarEnter \/ VarMove \/ VarTab \/ VarType
    \/ ShellResult
    \/ ProgramReturn

Spec == Init /\ [][Next]_vars

\* The selector with the query of phase 1 edited, the filter ticks and the
\* resizes; of phase 2 only the way back to phase 1.
NextSelect ==
    \/ RunTUI
    \/ CheatSelectQuit \/ CheatSelectEnter \/ CheatSelectMove \/ CheatSelectType
    \/ FilterTick \/ WindowSize
    \/ VarEsc
    \/ ProgramReturn

SpecSelect == Init /\ [][NextSelect]_vars

\* ------------------------------------------------------------------------
\* Properties of the selector
\* ------------------------------------------------------------------------

\* the varResolveState, the variable it is at, and the Scope of the cheat selected
Vrs == varState[1]
InPhase2 == phase = "varResolve" /\ varState # <<>>
Waiting == InPhase2 /\ Vrs.currentIdx < Len(Vrs.vars)
CurrentVar == Vrs.vars[Vrs.currentIdx + 1]
SelectedScope == cheatScope[selected]

\* the scope prepareCurrentVar builds when it is at the i-th variable of the list
\* and the variables before it are the resolved ones
ScopeBefore(i) == buildScope(SubSeq(Vrs.vars, 1, i - 1))

\* The variant the rule of the specification makes active: the first one, in
\* declaration order, whose condition is satisfied; failing that the first one
\* without a condition; failing that none (0).
Least(S) == CHOOSE x \in S : \A y \in S : x <= y
SatisfiedVariants(variants, scope) ==
    {i \in DOMAIN variants : variants[i].Condition # <<>>
                             /\ evaluateCondition(variants[i].Condition, scope) = {TRUE}}
UnconditionalVariants(variants) == {i \in DOMAIN variants : variants[i].Condition = <<>>}
ActiveVariant(variants, scope) ==
    IF SatisfiedVariants(variants, scope) # {} THEN Least(SatisfiedVariants(variants, scope))
    ELSE IF UnconditionalVariants(variants) # {} THEN Least(UnconditionalVariants(variants))
    ELSE 0

\* the i-th variable is one the resolver skips: declared, every variant
\* conditional, none satisfied
SkippedAsEmpty(i) ==
    /\ Vrs.vars[i].variants # <<>>
    /\ ActiveVariant(Vrs.vars[i].variants, ScopeBefore(i)) = 0

\* C1: a shellResultMsg that is handled after the user has left the variable its
\* command was started for (Enter or Esc) is discarded: it changes neither the
\* candidate list, nor the prompt-only/list mode, nor the input text, nor the
\* cursor of the variable the selector is at.
C1_StaleResultDiscarded ==
    [][(lastEvent'.kind = "shell" /\ lastEvent'.stale)
           => (varState' = varState /\ textInput' = textInput /\ cursor' = cursor
               /\ pc' = pc)]_vars

\* C2: Esc at the prompt of variable N > 0 leaves the selector waiting at variable
\* N-1, whatever its kind, with its value and resolved flag cleared and its
\* skipAutoCont flag set.
C2_EscStepsBack ==
    [][(lastEvent'.kind = "esc" /\ pc = "loop" /\ Waiting /\ Vrs.currentIdx > 0)
           => /\ pc' = "loop" /\ phase' = "varResolve" /\ varState' # <<>>
              /\ varState'[1].currentIdx = Vrs.currentIdx - 1
              /\ ~varState'[1].vars[Vrs.currentIdx].resolved
              /\ varState'[1].vars[Vrs.currentIdx].value = <<>>
              /\ varState'[1].vars[Vrs.currentIdx].skipAutoCont]_vars

\* C3: the resolved variables are the ones before the current one; the definition
\* of each of them, and of the current one, is the variant the rule makes active in
\* the scope of the variables before it; a variable whose variants are all
\* conditional and unsatisfied is resolved with the empty value and without its
\* prompt having been shown; and in the command RunTUI hands over for the cheat
\* "$a $l $s $c" once its Scope holds the four values, $s has become the empty
\* string whenever a is not k.
C3_VariantSelection ==
    /\ (InPhase2 /\ pc # "panic") =>
           \A i \in DOMAIN Vrs.vars :
               LET v == Vrs.vars[i]
                   k == ActiveVariant(v.variants, ScopeBefore(i))
               IN  /\ v.resolved <=> i <= Vrs.currentIdx
                   /\ (i <= Vrs.currentIdx + 1 /\ k # 0) => v.def = v.variants[k]
                   /\ (v.resolved /\ SkippedAsEmpty(i)) =>
                          v.value = <<>> /\ v.def.Name \notin shown
    /\ (/\ pc = "done" /\ finalCmd # <<>> /\ selected = CheatIdx(CheatBack)
        /\ DOMAIN SelectedScope = {Name_a, Name_l, Name_s, Name_c}) =>
           /\ SelectedScope[Name_a] # <<"k">> => SelectedScope[Name_s] = <<>>
           /\ finalCmd[1] = SelectedScope[Name_a] \o <<" ">> \o SelectedScope[Name_l] \o <<" ">>
                            \o SelectedScope[Name_s] \o <<" ">> \o SelectedScope[Name_c]

\* C3 witness: "$a $l $s $c" completed with a empty: l took its first variant
\* without a condition, s was skipped and its reference is gone from the command.
C3_Witness ==
    /\ pc = "done" /\ selected = CheatIdx(CheatBack)
    /\ finalCmd = <<<<" ","<",">"," "," ","k">>>>
    /\ Name_s \notin shown
    /\ InPhase2 /\ Vrs.currentIdx = 4 /\ SkippedAsEmpty(3)

\* C4: in a resolution of "x $flags" in which m resolves to k, flags resolves to
\* --kerberos and the resolution completes without a prompt for cred having been
\* shown.
C4_CredNeverPrompted ==
    (/\ pc \in {"quit", "done"} /\ selected = CheatIdx(CheatFlags)
     /\ Name_m \in DOMAIN SelectedScope /\ SelectedScope[Name_m] = <<"k">>)
        => /\ Name_flags \in DOMAIN SelectedScope
           /\ SelectedScope[Name_flags] = <<"-","-","k","e","r","b","e","r","o","s">>
           /\ Name_cred \notin shown

\* C7: once the shellResultMsg of the variable the selector is waiting at has been
\* handled: after an error or no line the selector is in free-text mode, the input
\* is the prefill and there is no candidate; after one line it is in free-text
\* mode, the input is the prefill if there is one and else the line after the map
\* command, and the variable is still unresolved; after two lines or more it is in
\* list mode and the candidates are those lines.
C7_ShellResultOutcome ==
    (lastEvent.kind = "shell" /\ ~lastEvent.stale /\ pc = "loop" /\ Waiting) =>
        LET msg == lastEvent.msg IN
        IF msg.err \/ Len(msg.options) = 0
        THEN Vrs.isPromptOnly /\ textInput = CurrentVar.prefill /\ Vrs.options = <<>>
        ELSE IF Len(msg.options) = 1
        THEN /\ Vrs.isPromptOnly /\ ~CurrentVar.resolved
             /\ textInput = IF CurrentVar.prefill # <<>> THEN CurrentVar.prefill
                            ELSE applyMapTransformCmd(msg.options[1], Vrs.selectOpts.MapCmd)
        ELSE ~Vrs.isPromptOnly /\ Vrs.options = msg.options

\* the column a list with --delimiter and --column is to show of a line: the
\* delimiter "\t" of the annotation stands for a TAB
ColumnOf(line, delimiter, column) ==
    LET d == IF delimiter = <<"\\", "t">> THEN <<"\t">> ELSE delimiter
        parts == Split(line, d)
    IN  IF column <= Len(parts) THEN TrimSpace(parts[column]) ELSE line

\* C8: for a variable with --delimiter D --column N --map CMD the list shows column
\* N of every output line, and the value of an accepted candidate is CMD applied to
\* the candidate's whole output line.
C8_MapOnOriginalLine ==
    /\ (InPhase2 /\ ~Vrs.isPromptOnly /\ Vrs.selectOpts.Column > 0 /\ Vrs.selectOpts.Delimiter # <<>>) =>
           \A i \in DOMAIN Vrs.filtered :
               Vrs.filtered[i].display =
                   ColumnOf(Vrs.filtered[i].original, Vrs.selectOpts.Delimiter, Vrs.selectOpts.Column)
    /\ (/\ lastEvent.kind = "enter" /\ lastEvent.picked # <<>> /\ InPhase2
        /\ selected \in {CheatIdx(CheatRoleTab), CheatIdx(CheatRoleColon)}
        /\ Vrs.vars[1].resolved) =>
           Vrs.vars[1].value = applyMapTransformCmd(lastEvent.picked, Vrs.selectOpts.MapCmd)

\* C9: after Esc at the first variable the selector is in phase 1, no cheat is
\* selected, and no cheat's Scope holds a value.
C9_EscDiscardsScope ==
    (lastEvent.kind = "esc" /\ phase = "cheatSelect") =>
        /\ selected = 0 /\ varState = <<>>
        /\ \A i \in DOMAIN Cheats : \A n \in DOMAIN cheatScope[i] : cheatScope[i][n] = <<>>

\* the i-th variable was given a value by the Scope of the cheat when phase 2
\* started (the Scope is written by --match before phase 2 and at completion)
Seeded(i) ==
    /\ Vrs.vars[i].def.Name \in DOMAIN SelectedScope
    /\ SelectedScope[Vrs.vars[i].def.Name] # <<>>

MatchedSsh == (Name_user :> <<"a","l">>) @@ (Name_host :> <<"e","x">>)

\* C11: once RunTUI has started the program on "ssh $user@$host" matched by
\* --match "ssh al@ex", the Scope holds user = al and host = ex; with auto-continue
\* on the resolution is complete, no prompt was shown and the command to hand over
\* is "ssh al@ex"; with auto-continue off the selector waits at user with the input
\* holding al.
C11_MatchAutoContinue ==
    (lastEvent.kind = "start" /\ selected = CheatIdx(CheatSsh) /\ SelectedScope # EmptyScope) =>
        /\ SelectedScope = MatchedSsh
        /\ autoContinue =>
               /\ pc = "quit" /\ shown = {}
               /\ BuildFinalCommand(CheatSsh.Command, SelectedScope)
                      = {<<"s","s","h"," ","a","l","@","e","x">>}
        /\ ~autoContinue =>
               /\ pc = "loop" /\ Waiting /\ Vrs.currentIdx = 0
               /\ Name_user \in shown /\ textInput = <<"a","l">>

\* C12: a resolved variable whose active variant is a literal has as value the
\* literal with the values of the variables resolved before it substituted, and
\* its prompt was not shown, whatever its prefill and auto-continue are.
C12_LiteralResolvedAtOnce ==
    (InPhase2 /\ pc # "panic") =>
        \A i \in DOMAIN Vrs.vars :
            LET v == Vrs.vars[i]
                k == ActiveVariant(v.variants, ScopeBefore(i))
            IN  (v.resolved /\ k # 0 /\ v.variants[k].Literal # <<>>) =>
                    /\ v.value \in SubstituteVars(v.variants[k].Literal, ScopeBefore(i))
                    /\ v.def.Name \notin shown

\* the list filterCheats makes for the query q
ListFor(q) == filterCheats([Model EXCEPT !.textInput = q]).filtered

\* C21: in phase 1 every change of the query made while the program runs
\* schedules one filter tick; a tick that is handled leaves the query alone and
\* makes the list the filter of the query current at that moment; so when the
\* last pending tick has been handled the list is the filter of the query.
C21_DebouncedFilter ==
    [][/\ (pc # "start" /\ phase = "cheatSelect" /\ phase' = "cheatSelect"
           /\ textInput' # textInput)
          => ticks' = ticks + 1
       /\ (lastEvent'.kind = "tick" /\ phase = "cheatSelect")
          => /\ textInput' = textInput
             /\ filtered' = ListFor(textInput)
             /\ ticks' = ticks - 1
             /\ ticks' = 0 => filtered' = ListFor(textInput')]_vars

\* a tick has been handled while a later one is pending: the query was edited
\* twice, to `s` and to `ss`, and the list is already the one of `ss`
C21_Witness ==
    /\ lastEvent.kind = "tick" /\ phase = "cheatSelect" /\ ticks = 1
    /\ textInput = <<"s", "s">> /\ filtered = <<CheatIdx(CheatSsh)>>

\* C22: when a filter tick has been handled in phase 1 the cursor is within the
\* list (0 when the list is empty), the offset is within 0..max(0, len - viewHeight)
\* and the cursor is inside the window of viewHeight rows that starts at the
\* offset, with viewHeight = max(height - 10, 3).
C22_CursorOffsetClamped ==
    (lastEvent.kind = "tick" /\ phase = "cheatSelect") =>
        LET vh == IF height - 10 > 3 THEN height - 10 ELSE 3
            n  == Len(filtered)
        IN  /\ 0 <= cursor /\ cursor <= (IF n - 1 > 0 THEN n - 1 ELSE 0)
            /\ 0 <= offset /\ offset <= (IF n - vh > 0 THEN n - vh ELSE 0)
            /\ offset <= cursor /\ cursor < offset + vh

\* a tick has been handled with the query `a`, whose list is shorter than the
\* index: the cursor is on the last of its four rows and the window of three rows
\* has followed it
C22_Witness ==
    /\ lastEvent.kind = "tick" /\ phase = "cheatSelect" /\ textInput = <<"a">>
    /\ Len(filtered) = 4 /\ cursor = 3 /\ offset = 1 /\ height = 12

\* C36: in phase 1 with no filter tick pending the list is the filter of the
\* query in the input; after Esc at the first variable has brought the selector
\* back to phase 1 the query is empty and the list is the filter of the empty
\* query, every snippet of the index.
C36_ListMatchesQuery ==
    (phase = "cheatSelect" /\ ticks = 0) =>
        /\ filtered = ListFor(textInput)
        /\ lastEvent.kind = "esc" =>
               (textInput = <<>> /\ filtered = [i \in 1..Len(Cheats) |-> i])

\* C37: the snippet Enter selects in phase 1 matches the query the input holds
\* when Enter is pressed, also when the query was edited and its filter tick has
\* not fired yet.
C37_EnterSelectsMatch ==
    [][(lastEvent'.kind = "select" /\ phase = "cheatSelect" /\ selected' # 0)
           => \E n \in DOMAIN ListFor(textInput) : ListFor(textInput)[n] = selected']_vars

\* C23: once Ctrl+C has been pressed, in either phase, or Esc in phase 1 (the
\* handlers that set quitting), the session ends: no snippet is selected, no final
\* command is built and RunTUI returns without a run-time error.
C23_Cancellation ==
    quitting => /\ pc \in {"quit", "done"}
                /\ selected = 0
                /\ finalCmd = <<>>

\* C16: when a resolution has completed, the keys of the Scope of the snippet are
\* the names of the collected variables other than the ones skipped as
\* resolved-empty: no skipped variable and no other name is a key.
C16_ScopeKeysAtCompletion ==
    (InPhase2 /\ pc \in {"quit", "done"} /\ selected # 0
              /\ Vrs.currentIdx = Len(Vrs.vars)) =>
        DOMAIN SelectedScope =
            {Vrs.vars[i].def.Name : i \in {j \in DOMAIN Vrs.vars : ~SkippedAsEmpty(j)}}

\* C32: while the selector waits in phase 2, the variables before the current
\* one are the resolved ones, and the current one and those after it hold no
\* value; so the scope built from the resolved variables is the values of the
\* variables before the current one.
C32_ResolvedBeforeCurrent ==
    (pc \in {"loop", "quit"} /\ Waiting) =>
        /\ \A i \in DOMAIN Vrs.vars :
              /\ Vrs.vars[i].resolved <=> i <= Vrs.currentIdx
              /\ i > Vrs.currentIdx => Vrs.vars[i].value = <<>>
        /\ buildScope(Vrs.vars) = ScopeBefore(Vrs.currentIdx + 1)

\* Esc has brought the selector back to a variable that is not the first
C32_Witness ==
    /\ pc = "loop" /\ Waiting /\ lastEvent.kind = "esc"
    /\ Vrs.currentIdx >= 1 /\ Vrs.currentIdx + 1 < Len(Vrs.vars)
    /\ ~CurrentVar.resolved /\ CurrentVar.skipAutoCont

\* C33: whenever acceptVarValue (Enter) or handleShellResult (a shell result)
\* indexes the variable list, the current index is within 0..len(vars)-1: no
\* Enter key and no shell result delivered after the last variable was accepted
\* reaches an out-of-range access.
C33_IndexInRange ==
    (pc = "panic" /\ lastEvent.kind \in {"enter", "shell"} /\ InPhase2) =>
        Vrs.currentIdx < Len(Vrs.vars)

\* the values a line of the output of the shell command of the current variable
\* gives when it is chosen from the list
OwnCandidates ==
    UNION {UNION {{listValue(splitLines(outcome.output)[n], parseSelectorOpts(CurrentVar.def.Args))
                   : n \in DOMAIN splitLines(outcome.output)}
                  : outcome \in {o \in RunShell(shellCmd) : ~o.err}}
           : shellCmd \in SubstituteVars(CurrentVar.def.Shell, ScopeBefore(Vrs.currentIdx + 1))}

\* C34: the value Enter accepts for a shell-sourced variable is the text of the
\* input or a candidate produced by the shell command of that variable; between
\* the preparation of the variable and the arrival of its shell result, Enter
\* never accepts a candidate, or a list mode, left over from the variable shown
\* before.
C34_EnterAcceptsOwn ==
    [][(lastEvent'.kind = "enter" /\ pc = "loop" /\ Waiting
            /\ TrimSpace(CurrentVar.def.Shell) # <<>>)
           => /\ varState'[1].vars[Vrs.currentIdx + 1].value \in {textInput} \cup OwnCandidates
              /\ (\E k \in DOMAIN inflight : ~inflight[k].stale)
                     => varState'[1].vars[Vrs.currentIdx + 1].value = textInput]_vars

\* C35: when phase 2 was entered before the event loop started and the first
\* variable shown is prompt-only with a non-empty prefill, the input of the first
\* prompt holds that prefill, and Enter pressed at once resolves the variable to
\* the prefill.
C35_FirstPromptPrefilled ==
    [][(/\ lastEvent.kind = "start" /\ pc = "loop" /\ Waiting
        /\ TrimSpace(CurrentVar.def.Shell) = <<>> /\ CurrentVar.prefill # <<>>)
           => /\ textInput = CurrentVar.prefill
              /\ lastEvent'.kind = "enter"
                     => varState'[1].vars[Vrs.currentIdx + 1].value = CurrentVar.prefill]_vars

\* Esc pressed up to n times with nothing in between, from the model m in phase
\* 2: every way the presses can go brings the selector to phase 1
RECURSIVE EscReturns(_, _)
EscReturns(m, n) ==
    /\ n > 0
    /\ \A r \in updateVarResolveKey(m, KeyEsc, autoContinue) :
           /\ ~r.panic
           /\ \/ r.m.phase = "cheatSelect"
              \/ r.cmd # CmdQuit /\ EscReturns(r.m, n - 1)

\* C39: from every prompt of phase 2, Esc pressed repeatedly with no other input
\* brings the selector back to phase 1 after at most as many presses as there
\* are variables, whatever the kinds of the variables before the current one.
C39_EscReturnsToPhase1 ==
    (pc = "loop" /\ Waiting) => EscReturns(Model, Len(Vrs.vars))

\* ------------------------------------------------------------------------
\* collectVariables on generated snippets
\* ------------------------------------------------------------------------

CvNames == {<<"a">>, <<"b">>, <<"c">>}

\* The ways one name can be declared in the annotation block, each with the names
\* its variants reference (refs: what the author of the snippet wrote, not what a
\* scanner finds).  X is the name referenced.
CvDeclarations(n) ==
    {[defs |-> <<>>, refs |-> {}],                                              \* not declared
     [defs |-> <<VarDef(n, <<>>, <<>>, <<>>, <<>>)>>, refs |-> {}]}             \* var n
    \cup {[defs |-> <<VarDef(n, <<"e"," ","$">> \o X, <<>>, <<>>, <<>>)>>,      \* var n = e $X
           refs |-> {X}] : X \in CvNames}
    \cup {[defs |-> <<VarDef(n, <<"e"," ","'","$">> \o X \o <<"'">>, <<>>, <<>>, <<>>)>>,
           refs |-> {}] : X \in CvNames}                                        \* var n = e '$X'
    \cup {[defs |-> <<VarDef(n, <<>>, <<"-","'","$">> \o X \o <<"'">>, <<>>, <<>>)>>,
           refs |-> {X}] : X \in CvNames}                                       \* var n := -'$X'
    \cup {[defs |-> <<VarDef(n, <<>>, <<"-","k">>, <<>>, <<"$">> \o X \o <<" ","=","="," ","k">>),
                      VarDef(n, <<>>, <<>>, <<>>, <<>>)>>,
           refs |-> {X}] : X \in CvNames}                                       \* if $X == k / var n := -k / fi / var n
    \cup {[defs |-> <<VarDef(n, <<"e"," ","\"","$">> \o X \o <<"\""," ","\\","$","k">>, <<>>, <<>>,
                             <<"$">> \o X \o <<" ","!","="," ","k">>)>>,
           refs |-> {X}] : X \in CvNames}                                       \* if $X != k / var n = e "$X" \$k / fi

\* Command templates, each with the names it references outside single quotes and
\* not behind a backslash.
CvCommands ==
    {[text |-> <<"x"," ","$","a">>, used |-> {<<"a">>}],
     [text |-> <<"x"," ","$","a"," ","$","b">>, used |-> {<<"a">>, <<"b">>}],
     [text |-> <<"x"," ","'","$","a","'"," ","$","b">>, used |-> {<<"b">>}],
     [text |-> <<"x"," ","\"","$","a","\""," ","\\","$","b">>, used |-> {<<"a">>}],
     [text |-> <<"x"," ","\"","'","$","a","'","\""," ","$","c">>, used |-> {<<"a">>, <<"c">>}],
     [text |-> <<"x"," ","$","d","_","1"," ","$","a">>, used |-> {<<"d","_","1">>, <<"a">>}],
     \* a single-quoted backslash, then a reference outside the quotes: x '\' $a
     [text |-> <<"x"," ","'","\\","'"," ","$","a">>, used |-> {<<"a">>}]}

CvInputs ==
    {[cheat |-> Cheat(c.text, <<>>, da.defs \o db.defs \o dc.defs),
      modules |-> [m \in {} |-> Module(<<>>, <<>>)],
      used |-> c.used,
      refs |-> (<<"a">> :> da.refs) @@ (<<"b">> :> db.refs) @@ (<<"c">> :> dc.refs)]
     : c \in CvCommands,
       da \in CvDeclarations(<<"a">>), db \in CvDeclarations(<<"b">>), dc \in CvDeclarations(<<"c">>)}

Collect ==
    /\ pc = "collect"
    /\ pc' = "collected"
    /\ cvOut' = collectVariables(cvIn.cheat, cvIn.modules)
    /\ UNCHANGED <<phase, quitting, selected, cursor, offset, textInput, filtered, height, varState,
                   cheatScope, late, inflight, ticks, autoContinue, environ, finalCmd, shown, lastEvent, cvIn>>

Idle ==
    /\ phase = "cheatSelect" /\ quitting = FALSE /\ selected = 0
    /\ cursor = 0 /\ offset = 0 /\ textInput = <<>> /\ varState = <<>>
    /\ filtered = <<>> /\ height = 0
    /\ cheatScope = <<>> /\ late = 0 /\ inflight = <<>> /\ ticks = 0 /\ autoContinue = FALSE
    /\ environ = EmptyScope /\ finalCmd = <<>> /\ shown = {} /\ lastEvent = [kind |-> "none"]

InitCollect == Idle /\ pc = "collect" /\ cvIn \in CvInputs /\ cvOut = <<>>

NextCollect == Collect

SpecCollect == InitCollect /\ [][NextCollect]_vars

\* the names of a list of varState, and the position of a name in it
NamesOf(vs) == {vs[i].def.Name : i \in DOMAIN vs}
PosOf(vs, n) == CHOOSE i \in DOMAIN vs : vs[i].def.Name = n

\* the least set that holds S and the references of the variants of its members
RECURSIVE RefClosure(_, _)
RefClosure(refs, S) ==
    LET T == S \cup UNION {refs[n] : n \in S \cap DOMAIN refs} IN
    IF T = S THEN S ELSE RefClosure(refs, T)

\* the reference graph has no cycle among the names reachable from S
RefAcyclic(refs, S) ==
    \A n \in RefClosure(refs, S) \cap DOMAIN refs : n \notin RefClosure(refs, refs[n])

\* the set of the elements of a sequence
Range(seq) == {seq[i] : i \in DOMAIN seq}

\* C5: with the needed variables being the ones reachable from the references the
\* scan of the command template returns, the list holds each needed variable
\* exactly once, on a cyclic reference graph too; on an acyclic one every variable
\* comes after every variable its variants reference.
C5_TopologicalOrder ==
    pc = "collected" =>
        LET needed == RefClosure(cvIn.refs, Range(findCommandVars(cvIn.cheat.Command))) IN
        /\ NamesOf(cvOut) = needed
        /\ \A i, j \in DOMAIN cvOut : cvOut[i].def.Name = cvOut[j].def.Name => i = j
        /\ RefAcyclic(cvIn.refs, needed) =>
               \A n \in NamesOf(cvOut) \cap DOMAIN cvIn.refs :
                   \A d \in cvIn.refs[n] : PosOf(cvOut, d) < PosOf(cvOut, n)

\* C5 witness: an acyclic snippet where the command names a before b, a's variant
\* references b, and the list puts b first.
C5_Witness ==
    /\ pc = "collected"
    /\ RefAcyclic(cvIn.refs, NamesOf(cvOut))
    /\ findCommandVars(cvIn.cheat.Command) = <<(<<"a">>), (<<"b">>)>>
    /\ <<"b">> \in cvIn.refs[<<"a">>]
    /\ Len(cvOut) >= 2 /\ PosOf(cvOut, <<"b">>) < PosOf(cvOut, <<"a">>)

\* C6: the names of the resolution list are the references of the command
\* template outside single quotes and not behind a backslash, closed under the
\* references of the variants; a name declared nowhere is listed as prompt-only.
C6_VariableClosure ==
    pc = "collected" =>
        /\ NamesOf(cvOut) = RefClosure(cvIn.refs, cvIn.used)
        /\ \A i \in DOMAIN cvOut :
               varDefsOf(cvIn.cheat.Vars, cvOut[i].def.Name) = <<>> =>
                   cvOut[i].def.Shell = <<>> /\ cvOut[i].def.Literal = <<>>

\* ------------------------------------------------------------------------
\* evaluateCondition on generated conditions and scopes
\* ------------------------------------------------------------------------

CondNames == {<<"x">>, <<"a">>, <<"a","b">>}

\* the values a variable can have been resolved to
CondValues == {<<>>, <<"v">>, <<"1">>, <<" ">>}

\* the scopes: any of the names resolved, each to any of the values
CondScopes ==
    UNION {[D -> CondValues] : D \in SUBSET CondNames}

\* the condition of an `if` line
CondTexts ==
    {<<"$","x">>,                                       \* $x
     <<"$","a">>,                                       \* $a
     <<"$","x"," ","!","="," ","v">>,                   \* $x != v
     <<"$","x"," ","=","="," ","v">>,                   \* $x == v
     <<"$","x","=","=","v"," ">>,                       \* $x==v, a blank behind
     <<"$","a","b"," ","=","="," ","1">>,               \* $ab == 1
     <<"$","a"," ","!","="," ","$","a","b">>,           \* $a != $ab
     <<"$","x"," ","!","="," ","v"," ","=","="," ","1">>,  \* $x != v == 1
     <<"$","x"," ","=","="," ","v"," ","!","="," ","1">>}  \* $x == v != 1

CondInputs == {[condition |-> c, scope |-> sc] : c \in CondTexts, sc \in CondScopes}

EvalCondition ==
    /\ pc = "condition"
    /\ pc' = "evaluated"
    /\ cvOut' = evaluateCondition(cvIn.condition, cvIn.scope)
    /\ UNCHANGED <<phase, quitting, selected, cursor, offset, textInput, filtered, height, varState,
                   cheatScope, late, inflight, ticks, autoContinue, environ, finalCmd, shown, lastEvent, cvIn>>

InitCondition == Idle /\ pc = "condition" /\ cvIn \in CondInputs /\ cvOut = {}

SpecCondition == InitCondition /\ [][EvalCondition]_vars

\* the text with every $name reference taken out
RECURSIVE WithoutRefs(_, _)
WithoutRefs(t, i) ==
    IF i > Len(t) THEN <<>>
    ELSE IF t[i] = "$" /\ VarEnd(t, i + 1, i + 1) > i + 1
         THEN WithoutRefs(t, VarEnd(t, i + 1, i + 1))
         ELSE <<t[i]>> \o WithoutRefs(t, i + 1)

\* C13: the result is the one of the text in which every $name of a resolved
\* variable is replaced by its value and every $name left, of a variable that is
\* not resolved, by the empty string; so `$x` with x not resolved is false and
\* `$x != v` with x not resolved is true.
C13_UnresolvedIsEmpty ==
    pc = "evaluated" =>
        /\ cvOut = {evalSubstituted(WithoutRefs(c, 1))
                        : c \in SubstituteVars(TrimSpace(cvIn.condition), cvIn.scope)}
        /\ <<"x">> \notin DOMAIN cvIn.scope =>
               /\ cvIn.condition = <<"$","x">> => cvOut = {FALSE}
               /\ cvIn.condition = <<"$","x"," ","!","="," ","v">> => cvOut = {TRUE}

\* the rule for a substituted text: split at the first == and compare the trimmed
\* sides; failing that split at the first != ; failing that the trimmed text is
\* not empty
ConditionRule(t) ==
    IF \E i \in 1..(Len(t) - 1) : SubSeq(t, i, i + 1) = <<"=","=">>
    THEN LET i == Least({j \in 1..(Len(t) - 1) : SubSeq(t, j, j + 1) = <<"=","=">>})
         IN  TrimSpace(SubSeq(t, 1, i - 1)) = TrimSpace(SubSeq(t, i + 2, Len(t)))
    ELSE IF \E i \in 1..(Len(t) - 1) : SubSeq(t, i, i + 1) = <<"!","=">>
    THEN LET i == Least({j \in 1..(Len(t) - 1) : SubSeq(t, j, j + 1) = <<"!","=">>})
         IN  TrimSpace(SubSeq(t, 1, i - 1)) # TrimSpace(SubSeq(t, i + 2, Len(t)))
    ELSE TrimSpace(t) # <<>>

\* C14: the result is the one the rule gives for the substituted text: equality
\* of the trimmed sides of the first ==, else inequality of the trimmed sides of
\* the first !=, else the trimmed text being non-empty.
C14_ConditionRule ==
    pc = "evaluated" =>
        cvOut = {ConditionRule(c) : c \in SubstituteVars(TrimSpace(cvIn.condition), cvIn.scope)}

\* the scope with the keys of D only
RestrictScope(scope, D) == [n \in D |-> scope[n]]

\* C15: leaving out of the scope keys the condition does not reference (keys that
\* are a proper prefix of a referenced name too) does not change the result, in
\* any order of the substitution.
C15_UnreferencedKeysIgnored ==
    pc = "evaluated" =>
        \A D \in SUBSET DOMAIN cvIn.scope :
            (DOMAIN cvIn.scope \ D) \cap Range(findAllVars(cvIn.condition)) = {} =>
                evaluateCondition(cvIn.condition, RestrictScope(cvIn.scope, D)) = cvOut

\* C38: the substitution of a scope into a text is deterministic: whatever the
\* order in which the entries of the scope are visited, the substituted text is
\* the same, also when one name of the scope is a prefix of another.
C38_SubstitutionDeterministic ==
    pc = "evaluated" =>
        \A s, t \in SubstituteVars(TrimSpace(cvIn.condition), cvIn.scope) : s = t


\* ------------------------------------------------------------------------
\* BuildFinalCommand on generated templates and scopes
\* ------------------------------------------------------------------------

\* command templates over the variables a and b, with and without an escaped
\* dollar, and scopes that resolve both variables
BuildNames == {<<"a">>, <<"b">>}

BuildValues == {<<>>, <<"v">>, <<"$","b">>, <<"$","a">>, <<"\\">>, <<"\\","$","b">>}

BuildScopes == [BuildNames -> BuildValues]

BuildTemplates ==
    { <<"x">>,
      <<"e"," ","$","a">>,
      <<"$","a"," ","$","b">>,
      <<"\\","$","a">>,
      <<"$","a","\\","$","b">>,
      <<"$","a","$","b">> }

BuildInputs == {[command |-> c, scope |-> sc] : c \in BuildTemplates, sc \in BuildScopes}

\* the command is built, then built again from each result with the same scope
BuildCommand ==
    /\ pc = "build"
    /\ pc' = "built"
    /\ cvOut' = [once  |-> BuildFinalCommand(cvIn.command, cvIn.scope),
                 again |-> [r \in BuildFinalCommand(cvIn.command, cvIn.scope)
                              |-> BuildFinalCommand(r, cvIn.scope)]]
    /\ UNCHANGED <<phase, quitting, selected, cursor, offset, textInput, filtered, height, varState,
                   cheatScope, late, inflight, ticks, autoContinue, environ, finalCmd, shown, lastEvent, cvIn>>

InitBuild == Idle /\ pc = "build" /\ cvIn \in BuildInputs /\ cvOut = <<>>

SpecBuild == InitBuild /\ [][BuildCommand]_vars

\* C17: building the command from the output of BuildFinalCommand, with the same
\* scope, gives that output again.
C17_BuildIdempotent ==
    pc = "built" => \A r \in cvOut.once : cvOut.again[r] = {r}


\* ------------------------------------------------------------------------
\* filterCheats on generated indexes and queries
\* ------------------------------------------------------------------------

\* a cheatItem: the fields phase 1 searches
Item(folder, file, header, description, command) ==
    [folder |-> folder, file |-> file, Header |-> header, Description |-> description,
     Command |-> command]

\* a short index: a word that would match across two fields, capitals in a
\* field, words found in different fields, a field that is one capital letter
\* outside ASCII
SmallIndex ==
    << Item(<<"a","b">>, <<"c","d">>, <<"L","o","g">>, <<>>, <<"i","d">>),
       Item(<<"n">>, <<"b","c">>, <<"A">>, <<"d"," ","a">>, <<"l","s">>),
       Item(<<"n">>, <<"f">>, <<CapitalAStroke>>, <<>>, <<"l","o","g"," ","-","a">>) >>

\* an index of one cheat more than filterCheats lists: every cheat matches `a`,
\* only the last one matches `b`
MaxCheats == FilterCap + 1

LargeIndex ==
    [i \in 1..MaxCheats |->
        Item(<<"n">>, <<"f">>, <<"H">>, <<>>,
             IF i < MaxCheats THEN <<"a">> ELSE <<"a"," ","b">>)]

FilterQueries ==
    { <<>>, <<" ">>, <<"a">>, <<" ","A"," ">>, <<"b","c">>, <<"L","O","G">>, <<"l","o","g">>,
      <<"d"," "," ","n">>, <<"x">>, <<SmallAStroke>>, <<CapitalAStroke>> }

FilterWords == { <<"a">>, <<"b">>, <<"D">>, <<"c","d">> }

FilterInputs ==
    {[cheats |-> c, query |-> q, word |-> w] :
        c \in {SmallIndex, LargeIndex}, q \in FilterQueries, w \in FilterWords}

\* the query is set and filterCheats runs
FilterQuery ==
    /\ pc = "filter"
    /\ \E m \in {filterCheatsOf(cvIn.cheats, [Model EXCEPT !.textInput = cvIn.query])} :
          /\ textInput' = m.textInput /\ filtered' = m.filtered
          /\ cursor' = m.cursor /\ offset' = m.offset
    /\ pc' = "filtered"
    /\ UNCHANGED <<phase, quitting, selected, height, varState, cheatScope, late, inflight, ticks,
                   autoContinue, environ, finalCmd, shown, lastEvent, cvIn, cvOut>>

\* a word is added to the query and filterCheats runs again; cvOut keeps the
\* list of the query before
FilterWord ==
    /\ pc = "filtered"
    /\ \E m \in {filterCheatsOf(cvIn.cheats,
                                [Model EXCEPT !.textInput = textInput \o <<" ">> \o cvIn.word])} :
          /\ textInput' = m.textInput /\ filtered' = m.filtered
          /\ cursor' = m.cursor /\ offset' = m.offset
    /\ cvOut' = filtered
    /\ pc' = "narrowed"
    /\ UNCHANGED <<phase, quitting, selected, height, varState, cheatScope, late, inflight, ticks,
                   autoContinue, environ, finalCmd, shown, lastEvent, cvIn>>

InitFilter == Idle /\ pc = "filter" /\ cvIn \in FilterInputs /\ cvOut = <<>>

NextFilter == FilterQuery \/ FilterWord

SpecFilter == InitFilter /\ [][NextFilter]_vars

\* the words of a query: the maximal runs without a space of its lower case
QueryWords(q) ==
    LET t == ToLower(q) IN
    {SubSeq(t, i, j) : <<i, j>> \in
        {x \in (1..Len(t)) \X (1..Len(t)) :
            /\ x[1] <= x[2]
            /\ \A k \in x[1]..x[2] : t[k] \notin Space
            /\ (x[1] = 1 \/ t[x[1] - 1] \in Space)
            /\ (x[2] = Len(t) \/ t[x[2] + 1] \in Space)}}

\* w is a substring of the field f, whatever the case of the letters
SubstringIgnoringCase(w, f) ==
    \E i \in 1..(Len(f) - Len(w) + 1) :
        \A k \in 1..Len(w) : LowerOf(f[i + k - 1]) = LowerOf(w[k])

SearchedFields(item) == {item.folder, item.file, item.Header, item.Description, item.Command}

\* C18: of an index shorter than the cap, the cheats listed after a filter are
\* the ones such that every word of the query (trimmed, lower-cased, split on
\* spaces) is a case-insensitive substring of one of the five fields; with no word
\* every cheat is listed.
C18_FilterMatch ==
    (pc \in {"filtered", "narrowed"} /\ Len(cvIn.cheats) < FilterCap) =>
        \A i \in DOMAIN cvIn.cheats :
            (i \in Range(filtered)) <=>
                \A w \in QueryWords(textInput) :
                    \E f \in SearchedFields(cvIn.cheats[i]) : SubstringIgnoringCase(w, f)

\* C19: the cheats listed for the query with a word added are among the cheats
\* listed for the query.
C19_FilterMonotone ==
    pc = "narrowed" => Range(filtered) \subseteq Range(cvOut)

\* C20: after a filter the list is a subsequence of the index, in the order of
\* the index, and has at most FilterCap entries.
C20_FilteredCapped ==
    pc \in {"filtered", "narrowed"} =>
        /\ \A k \in DOMAIN filtered : filtered[k] \in DOMAIN cvIn.cheats
        /\ \A k \in 1..(Len(filtered) - 1) : filtered[k] < filtered[k + 1]
        /\ Len(filtered) <= FilterCap

\* ------------------------------------------------------------------------
\* parser.go: the cheat block DSL
\* ------------------------------------------------------------------------

\* NewCheat.  Tags and Scope, which the parser never reads back, are left out.
NewCheat(file, header) ==
    [File |-> file, Header |-> header, Description |-> <<>>, Command |-> <<>>,
     Export |-> <<>>, Imports |-> <<>>, Vars |-> <<>>, HasCheatBlock |-> FALSE]

\* ParseVarDef and ParseVarDefLiteral: the text before "---" is the command or
\* the literal, the text after it the selector arguments
ParseVarDefWithCondition(name, value, condition, isLiteral) ==
    LET idx  == IndexFrom(value, 1, <<"-", "-", "-">>)
        body == IF idx # 0 THEN TrimSpace(SubSeq(value, 1, idx - 1)) ELSE TrimSpace(value)
        args == IF idx # 0 THEN TrimSpace(SubSeq(value, idx + 3, Len(value))) ELSE <<>>
    IN VarDef(name, IF isLiteral THEN <<>> ELSE body, IF isLiteral THEN body ELSE <<>>,
              args, condition)

\* the end of the run of \s that starts at j
RECURSIVE SpaceEnd(_, _)
SpaceEnd(s, j) == IF j <= Len(s) /\ s[j] \in Space THEN SpaceEnd(s, j + 1) ELSE j

\* ^kw\s+(.+)$ on a trimmed line: the group, or <<>> when the line does not match
KeywordArg(line, kw) ==
    LET p == SpaceEnd(line, Len(kw) + 1) IN
    IF HasPrefixAt(line, 1, kw) /\ p > Len(kw) + 1 /\ p <= Len(line)
    THEN SubSeq(line, p, Len(line)) ELSE <<>>

\* ^kw\s+(\S+)$
KeywordName(line, kw) ==
    LET arg == KeywordArg(line, kw) IN
    IF \E i \in DOMAIN arg : arg[i] \in Space THEN <<>> ELSE arg

KwIf     == <<"i", "f">>
KwFi     == <<"f", "i">>
KwExport == <<"e", "x", "p", "o", "r", "t">>
KwImport == <<"i", "m", "p", "o", "r", "t">>
KwVar    == <<"v", "a", "r">>

\* varDefLiteral, varDef and varDefPrompt, tried in that order on a trimmed line:
\* the VarDef the line declares, as a sequence of at most one element
ParseVarLine(line, condition) ==
    LET p == SpaceEnd(line, Len(KwVar) + 1)
        w == WordEnd(line, p)
        q == SpaceEnd(line, w)
        name == SubSeq(line, p, w - 1)
        vl == SpaceEnd(line, q + 2)
        vs == SpaceEnd(line, q + 1)
    IN  IF ~(HasPrefixAt(line, 1, KwVar) /\ p > Len(KwVar) + 1 /\ w > p) THEN <<>>
        ELSE IF HasPrefixAt(line, q, <<":", "=">>) /\ vl <= Len(line)
             THEN <<ParseVarDefWithCondition(name, SubSeq(line, vl, Len(line)), condition, TRUE)>>
        ELSE IF HasPrefixAt(line, q, <<"=">>) /\ vs <= Len(line)
             THEN <<ParseVarDefWithCondition(name, SubSeq(line, vs, Len(line)), condition, FALSE)>>
        ELSE IF q > Len(line) THEN <<VarDef(name, <<>>, <<>>, <<>>, condition)>>
        ELSE <<>>

\* strings.TrimRight(line, " \t")
RECURSIVE TrimRightBlank(_)
TrimRightBlank(s) ==
    IF s # <<>> /\ s[Len(s)] \in {" ", "\t"} THEN TrimRightBlank(SubSeq(s, 1, Len(s) - 1)) ELSE s

\* joinContinuationLines: a line that ends with a backslash is joined to the next
RECURSIVE joinContinuationFrom(_, _, _)
joinContinuationFrom(lines, i, current) ==
    IF i > Len(lines) THEN (IF current # <<>> THEN <<current>> ELSE <<>>)
    ELSE LET trimmed == TrimRightBlank(lines[i]) IN
         IF trimmed # <<>> /\ trimmed[Len(trimmed)] = "\\"
         THEN joinContinuationFrom(lines, i + 1, current \o SubSeq(trimmed, 1, Len(trimmed) - 1))
         ELSE <<current \o lines[i]>> \o joinContinuationFrom(lines, i + 1, <<>>)

joinContinuationLines(lines) == joinContinuationFrom(lines, 1, <<>>)

\* one line of the DSL, applied to the cheat and the condition of the open if
parseCheatDSLLine(cheat, condition, raw) ==
    LET line == TrimSpace(raw) IN
    IF line = <<>> \/ line[1] = "#" THEN [cheat |-> cheat, condition |-> condition]
    ELSE IF KeywordArg(line, KwIf) # <<>>
         THEN [cheat |-> cheat, condition |-> TrimSpace(KeywordArg(line, KwIf))]
    ELSE IF line = KwFi THEN [cheat |-> cheat, condition |-> <<>>]
    ELSE IF KeywordName(line, KwExport) # <<>>
         THEN [cheat |-> [cheat EXCEPT !.Export = KeywordName(line, KwExport)],
               condition |-> condition]
    ELSE IF KeywordName(line, KwImport) # <<>>
         THEN [cheat |-> [cheat EXCEPT !.Imports = Append(@, KeywordName(line, KwImport))],
               condition |-> condition]
    ELSE [cheat |-> [cheat EXCEPT !.Vars = @ \o ParseVarLine(line, condition)],
          condition |-> condition]

RECURSIVE parseCheatDSLFrom(_, _, _, _)
parseCheatDSLFrom(cheat, condition, lines, i) ==
    IF i > Len(lines) THEN cheat
    ELSE LET r == parseCheatDSLLine(cheat, condition, lines[i])
         IN parseCheatDSLFrom(r.cheat, r.condition, lines, i + 1)

\* parseCheatDSL
parseCheatDSL(cheat, content) ==
    parseCheatDSLFrom(cheat, <<>>, joinContinuationLines(Split(content, <<"\n">>)), 1)

\* ------------------------------------------------------------------------
\* parser.go: the index and the line parser
\* ------------------------------------------------------------------------

\* NewCheatIndex
NewCheatIndex == [Cheats |-> <<>>, Modules |-> [n \in {} |-> <<>>], Duplicates |-> <<>>]

\* NewModule.  Cheats, the back pointer to the declaring cheat, is left out.
NewModule(cheat) ==
    [Name |-> cheat.Export, Vars |-> cheat.Vars, Imports |-> cheat.Imports, File |-> cheat.File]

DuplicateExport(name, file1, file2) == [Name |-> name, File1 |-> file1, File2 |-> file2]

\* idx.Modules[name] = mod
SetModule(modules, name, mod) ==
    [n \in DOMAIN modules \cup {name} |-> IF n = name THEN mod ELSE modules[n]]

\* CheatIndex.AddCheat
AddCheat(idx, cheat) == [idx EXCEPT !.Cheats = Append(@, cheat)]

\* CheatIndex.RegisterModule
RegisterModule(idx, cheat) ==
    IF cheat.Export = <<>> THEN idx
    ELSE [idx EXCEPT
            !.Duplicates = IF cheat.Export \in DOMAIN idx.Modules
                           THEN Append(@, DuplicateExport(cheat.Export,
                                                          idx.Modules[cheat.Export].File,
                                                          cheat.File))
                           ELSE @,
            !.Modules = SetModule(@, cheat.Export, NewModule(cheat))]

LangMermaid == <<"m", "e", "r", "m", "a", "i", "d">>
LangDot     == <<"d", "o", "t">>
LangChart   == <<"c", "h", "a", "r", "t">>

\* IsShellLanguage
IsShellLanguage(lang) == ToLower(lang) \notin {LangMermaid, LangDot, LangChart}

\* parseState as getParseState hands it out
NewParseState ==
    [currentHeader |-> <<>>, inCodeBlock |-> FALSE, codeBlockLang |-> <<>>,
     codeBlockDesc |-> <<>>, codeBlockBuf |-> <<>>, inCheatBlock |-> FALSE,
     cheatBlockBuf |-> <<>>, pendingCodeBlocks |-> <<>>]

codeBlock(lang, content, description) ==
    [lang |-> lang, content |-> content, description |-> description]

\* the grave accent, written as its code point
Backtick    == "U+0060"
Fence       == <<Backtick, Backtick, Backtick>>
CommentOpen == <<"<", "!", "-", "-">>
CommentEnd  == <<"-", "-", ">">>
WordCheat   == <<"c", "h", "e", "a", "t">>
TitleOpen   == <<"t", "i", "t", "l", "e", ":", "\"">>

\* the end of the run of '#' that starts at j
RECURSIVE HashEnd(_, _)
HashEnd(s, j) == IF j <= Len(s) /\ s[j] = "#" THEN HashEnd(s, j + 1) ELSE j

\* parseHeader: one to six '#', one space, a non-empty text
parseHeader(line) ==
    LET i == HashEnd(line, 1) - 1 IN
    IF i = 0 \/ i > 6 \/ i >= Len(line) \/ line[i + 1] # " " \/ i + 1 >= Len(line)
    THEN [ok |-> FALSE, header |-> <<>>]
    ELSE [ok |-> TRUE, header |-> SubSeq(line, i + 2, Len(line))]

\* the end of the run of characters other than '"' that starts at j
RECURSIVE QuoteAt(_, _)
QuoteAt(s, j) == IF j <= Len(s) /\ s[j] # "\"" THEN QuoteAt(s, j + 1) ELSE j

\* parseCodeBlockStart on a line that starts with the fence: the word after the
\* fence is the language; a line that holds title: must have the whole form
\* ```lang title:"desc"
parseCodeBlockStart(line) ==
    LET e == WordEnd(line, 4)
        t == SpaceEnd(line, e)
        c == QuoteAt(line, t + Len(TitleOpen))
    IN  IF ~Contains(SubSeq(line, 4, Len(line)), SubSeq(TitleOpen, 1, 6))
        THEN [ok |-> TRUE, lang |-> SubSeq(line, 4, e - 1), desc |-> <<>>]
        ELSE IF /\ t > e
                /\ HasPrefixAt(line, t, TitleOpen)
                /\ c <= Len(line)
                /\ SpaceEnd(line, c + 1) > Len(line)
             THEN [ok |-> TRUE, lang |-> SubSeq(line, 4, e - 1),
                   desc |-> SubSeq(line, t + Len(TitleOpen), c - 1)]
             ELSE [ok |-> FALSE, lang |-> <<>>, desc |-> <<>>]

\* parseCheatSingleLine: <!-- cheat ... --> on one line, at least 15 bytes long
parseCheatSingleLine(line) ==
    LET inner == TrimSpace(SubSeq(line, 5, Len(line) - 3)) IN
    IF /\ Len(line) >= 15
       /\ HasPrefixAt(line, 1, CommentOpen)
       /\ HasPrefixAt(line, Len(line) - 2, CommentEnd)
       /\ Len(inner) >= 5
       /\ ToLower(SubSeq(inner, 1, 5)) = WordCheat
    THEN [ok |-> TRUE, content |-> TrimSpace(SubSeq(inner, 6, Len(inner)))]
    ELSE [ok |-> FALSE, content |-> <<>>]

\* isCheatStart: <!-- cheat and nothing else, at least 10 bytes long
isCheatStart(line) ==
    /\ Len(line) >= 10
    /\ HasPrefixAt(line, 1, CommentOpen)
    /\ ToLower(TrimSpace(SubSeq(line, 5, Len(line)))) = WordCheat

\* isCheatEnd
isCheatEnd(line) == TrimSpace(line) = CommentEnd

\* trimSpaceBytes: spaces, tabs, newlines and carriage returns go from both ends
trimSpaceBytes(b) == TrimSpace(b)

\* createCheat
createCheat(path, header, description, command, cheatBlock, hasCheatBlock) ==
    LET cheat == [NewCheat(path, header) EXCEPT !.Description = TrimSpace(description),
                                                !.Command = command,
                                                !.HasCheatBlock = hasCheatBlock]
    IN IF cheatBlock # <<>> THEN parseCheatDSL(cheat, cheatBlock) ELSE cheat

\* the body of processCheatComment and of the first branch of processCheatBlock:
\* the pending block at position at is paired with the annotation and taken out
pairPending(idx, s, path, content, at) ==
    LET block == s.pendingCodeBlocks[at]
        cheat == createCheat(path, s.currentHeader, block.description, block.content,
                             content, TRUE)
    IN [index |-> RegisterModule(AddCheat(idx, cheat), cheat),
        s |-> [s EXCEPT !.pendingCodeBlocks =
                   SubSeq(@, 1, at - 1) \o SubSeq(@, at + 1, Len(@))]]

\* processCheatComment
processCheatComment(idx, s, path, content) ==
    IF s.pendingCodeBlocks = <<>> THEN [index |-> idx, s |-> s]
    ELSE pairPending(idx, s, path, content, Len(s.pendingCodeBlocks))

\* the standalone branch of processCheatBlock
standaloneModule(idx, s, path, content) ==
    LET cheat == createCheat(path, s.currentHeader, <<>>, <<>>, content, TRUE)
    IN [index |-> IF cheat.Export # <<>> THEN RegisterModule(idx, cheat) ELSE idx, s |-> s]

\* a processCheatBlock that would pair the oldest pending block
processCheatBlockOldest(idx, s, path) ==
    IF s.pendingCodeBlocks # <<>>
    THEN pairPending(idx, s, path, s.cheatBlockBuf, 1)
    ELSE standaloneModule(idx, s, path, s.cheatBlockBuf)

\* processCheatBlock
processCheatBlock(idx, s, path) ==
    IF s.pendingCodeBlocks # <<>>
    THEN pairPending(idx, s, path, s.cheatBlockBuf, Len(s.pendingCodeBlocks))
    ELSE standaloneModule(idx, s, path, s.cheatBlockBuf)

\* a processPendingBlocks that would flush every pending block, whatever its language
processPendingBlocksAll(idx, path, header, blocks) ==
    [idx EXCEPT !.Cheats = @ \o
        [k \in 1..Len(blocks) |->
            createCheat(path, header, blocks[k].description, blocks[k].content, <<>>, FALSE)]]

\* processPendingBlocks: the pending blocks of a shell language become snippets
\* without annotation, in the order in which they were closed
processPendingBlocks(idx, path, header, blocks) ==
    LET shell == SelectSeq(blocks, LAMBDA b : IsShellLanguage(b.lang) /\ b.content # <<>>)
    IN [idx EXCEPT !.Cheats = @ \o
           [k \in 1..Len(shell) |->
               createCheat(path, header, shell[k].description, shell[k].content, <<>>, FALSE)]]

\* parseLine with a fault: inside a code block any line that starts with three
\* backticks closes the block
parseLineAnyFence(idx, s, path, line) ==
    IF s.inCodeBlock THEN
        IF HasPrefixAt(line, 1, Fence)
        THEN LET content == trimSpaceBytes(s.codeBlockBuf) IN
             [index |-> idx,
              s |-> [s EXCEPT !.inCodeBlock = FALSE,
                              !.pendingCodeBlocks =
                                  IF content # <<>>
                                  THEN Append(@, codeBlock(s.codeBlockLang, content,
                                                           s.codeBlockDesc))
                                  ELSE @]]
        ELSE [index |-> idx, s |-> [s EXCEPT !.codeBlockBuf = @ \o line \o <<"\n">>]]
    ELSE IF s.inCheatBlock THEN
        IF HasPrefixAt(line, 1, <<"-", "-">>) /\ isCheatEnd(line)
        THEN processCheatBlock(idx, [s EXCEPT !.inCheatBlock = FALSE], path)
        ELSE [index |-> idx, s |-> [s EXCEPT !.cheatBlockBuf = @ \o line \o <<"\n">>]]
    ELSE IF line = <<>> THEN [index |-> idx, s |-> s]
    ELSE IF line[1] = "#" /\ parseHeader(line).ok
    THEN [index |-> processPendingBlocks(idx, path, s.currentHeader, s.pendingCodeBlocks),
          s |-> [s EXCEPT !.currentHeader = parseHeader(line).header,
                          !.pendingCodeBlocks = <<>>]]
    ELSE IF HasPrefixAt(line, 1, Fence) /\ parseCodeBlockStart(line).ok
    THEN [index |-> idx,
          s |-> [s EXCEPT !.inCodeBlock = TRUE,
                          !.codeBlockLang = parseCodeBlockStart(line).lang,
                          !.codeBlockDesc = parseCodeBlockStart(line).desc,
                          !.codeBlockBuf = <<>>]]
    ELSE IF line[1] = "<" /\ parseCheatSingleLine(line).ok
    THEN processCheatComment(idx, s, path, parseCheatSingleLine(line).content)
    ELSE IF line[1] = "<" /\ isCheatStart(line)
    THEN [index |-> idx, s |-> [s EXCEPT !.inCheatBlock = TRUE, !.cheatBlockBuf = <<>>]]
    ELSE [index |-> idx, s |-> s]

\* Parser.parseLine
parseLine(idx, s, path, line) ==
    IF s.inCodeBlock THEN
        IF line = Fence
        THEN LET content == trimSpaceBytes(s.codeBlockBuf) IN
             [index |-> idx,
              s |-> [s EXCEPT !.inCodeBlock = FALSE,
                              !.pendingCodeBlocks =
                                  IF content # <<>>
                                  THEN Append(@, codeBlock(s.codeBlockLang, content,
                                                           s.codeBlockDesc))
                                  ELSE @]]
        ELSE [index |-> idx, s |-> [s EXCEPT !.codeBlockBuf = @ \o line \o <<"\n">>]]
    ELSE IF s.inCheatBlock THEN
        IF HasPrefixAt(line, 1, <<"-", "-">>) /\ isCheatEnd(line)
        THEN processCheatBlock(idx, [s EXCEPT !.inCheatBlock = FALSE], path)
        ELSE [index |-> idx, s |-> [s EXCEPT !.cheatBlockBuf = @ \o line \o <<"\n">>]]
    ELSE IF line = <<>> THEN [index |-> idx, s |-> s]
    ELSE IF line[1] = "#" /\ parseHeader(line).ok
    THEN [index |-> processPendingBlocks(idx, path, s.currentHeader, s.pendingCodeBlocks),
          s |-> [s EXCEPT !.currentHeader = parseHeader(line).header,
                          !.pendingCodeBlocks = <<>>]]
    ELSE IF HasPrefixAt(line, 1, Fence) /\ parseCodeBlockStart(line).ok
    THEN [index |-> idx,
          s |-> [s EXCEPT !.inCodeBlock = TRUE,
                          !.codeBlockLang = parseCodeBlockStart(line).lang,
                          !.codeBlockDesc = parseCodeBlockStart(line).desc,
                          !.codeBlockBuf = <<>>]]
    ELSE IF line[1] = "<" /\ parseCheatSingleLine(line).ok
    THEN processCheatComment(idx, s, path, parseCheatSingleLine(line).content)
    ELSE IF line[1] = "<" /\ isCheatStart(line)
    THEN [index |-> idx, s |-> [s EXCEPT !.inCheatBlock = TRUE, !.cheatBlockBuf = <<>>]]
    ELSE [index |-> idx, s |-> s]

\* the lines parseLines cuts the data into: split at '\n', a trailing '\r' dropped
linesOf(data) ==
    LET raw == Split(data, <<"\n">>) IN
    [i \in 1..Len(raw) |->
        IF raw[i] # <<>> /\ raw[i][Len(raw[i])] = "\r"
        THEN SubSeq(raw[i], 1, Len(raw[i]) - 1) ELSE raw[i]]

RECURSIVE parseLinesFrom(_, _, _, _, _)
parseLinesFrom(idx, s, path, lines, i) ==
    IF i > Len(lines)
    THEN processPendingBlocks(idx, path, s.currentHeader, s.pendingCodeBlocks)
    ELSE LET r == parseLine(idx, s, path, lines[i])
         IN parseLinesFrom(r.index, r.s, path, lines, i + 1)

\* Parser.parseLines: every line through parseLine, then the blocks still pending
parseLines(idx, path, data) == parseLinesFrom(idx, NewParseState, path, linesOf(data), 1)

\* ------------------------------------------------------------------------
\* parseLines on generated documents
\* ------------------------------------------------------------------------

\* the longest document, in elements
MaxElems == 4

\* the elements a document is made of: a header, a shell block, a dot block, a
\* block without language whose body is indented between two blank lines, a
\* multi-line annotation that declares a variable, one that declares an export,
\* and a single-line annotation
ElemKinds == {"H", "Sh", "Dot", "Ind", "Ann", "Exp", "One"}
BlockKinds == {"Sh", "Dot", "Ind"}

DigitOf(k) == <<"1", "2", "3", "4", "5", "6", "7", "8", "9">>[k]

\* the text that tells the element at position k from the others
HeaderText(k) == <<"h", DigitOf(k)>>
BlockTag(k)   == <<"c", DigitOf(k)>>

ExportName == <<"m">>

\* the lines of a block between its fences
BodyOf(kind, k) ==
    IF kind = "Ind" THEN << <<>>, <<" ", " ">> \o BlockTag(k), <<>> >> ELSE <<BlockTag(k)>>

\* the lines of the element of the given kind at position k
ElemLines(kind, k) ==
    CASE kind = "H"   -> << <<"#", " ">> \o HeaderText(k) >>
      [] kind = "Sh"  -> << Fence \o <<"s", "h">> >> \o BodyOf(kind, k) \o <<Fence>>
      [] kind = "Dot" -> << Fence \o LangDot >> \o BodyOf(kind, k) \o <<Fence>>
      [] kind = "Ind" -> <<Fence>> \o BodyOf(kind, k) \o <<Fence>>
      [] kind = "Ann" -> << CommentOpen \o <<" ">> \o WordCheat,
                            KwVar \o <<" ", "x">>, CommentEnd >>
      [] kind = "Exp" -> << CommentOpen \o <<" ">> \o WordCheat,
                            KwExport \o <<" ">> \o ExportName, CommentEnd >>
      [] kind = "One" -> << CommentOpen \o <<" ">> \o WordCheat \o <<" ">>
                            \o KwVar \o <<" ", "y", " ">> \o CommentEnd >>

RECURSIVE DocLinesFrom(_, _)
DocLinesFrom(kinds, k) ==
    IF k > Len(kinds) THEN <<>>
    ELSE ElemLines(kinds[k], k) \o DocLinesFrom(kinds, k + 1)

\* the position of the element that each line belongs to
RECURSIVE LineOwnerFrom(_, _)
LineOwnerFrom(kinds, k) ==
    IF k > Len(kinds) THEN <<>>
    ELSE [i \in 1..Len(ElemLines(kinds[k], k)) |-> k] \o LineOwnerFrom(kinds, k + 1)

\* the bytes of a file: every line followed by '\n'
RECURSIVE FileBytes(_)
FileBytes(lines) ==
    IF lines = <<>> THEN <<>> ELSE Head(lines) \o <<"\n">> \o FileBytes(Tail(lines))

Document(path, kinds) ==
    [path |-> path, kinds |-> kinds, owner |-> LineOwnerFrom(kinds, 1),
     data |-> FileBytes(DocLinesFrom(kinds, 1))]

PathA == <<"a", ".", "m", "d">>
PathB == <<"b", ".", "m", "d">>

Documents == {Document(PathA, kinds) :
                 kinds \in UNION {[1..n -> ElemKinds] : n \in 1..MaxElems}}

\* one iteration of the loop of parseLines
ParseLine ==
    /\ pc = "parsing"
    /\ cvOut.line <= Len(linesOf(cvIn.data))
    /\ \E r \in {parseLine(cvOut.index, cvOut.s, cvIn.path, linesOf(cvIn.data)[cvOut.line])} :
           cvOut' = [index |-> r.index, s |-> r.s, line |-> cvOut.line + 1]
    /\ UNCHANGED <<pc, phase, quitting, selected, cursor, offset, textInput, filtered, height, varState,
                   cheatScope, late, inflight, ticks, autoContinue, environ, finalCmd, shown, lastEvent, cvIn>>

\* the end of parseLines: the blocks still pending are flushed
ParseEnd ==
    /\ pc = "parsing"
    /\ cvOut.line > Len(linesOf(cvIn.data))
    /\ pc' = "parsed"
    /\ cvOut' = [cvOut EXCEPT !.index = processPendingBlocks(cvOut.index, cvIn.path,
                                            cvOut.s.currentHeader, cvOut.s.pendingCodeBlocks)]
    /\ UNCHANGED <<phase, quitting, selected, cursor, offset, textInput, filtered, height, varState,
                   cheatScope, late, inflight, ticks, autoContinue, environ, finalCmd, shown, lastEvent, cvIn>>

InitParse ==
    /\ Idle /\ pc = "parsing" /\ cvIn \in Documents
    /\ cvOut = [index |-> NewCheatIndex, s |-> NewParseState, line |-> 1]

NextParse == ParseLine \/ ParseEnd

SpecParse == InitParse /\ [][NextParse]_vars

\* ------------------------------------------------------------------------
\* Properties of parseLines
\* ------------------------------------------------------------------------

\* the header of the section that the element at position k stands in
SectionHeader(kinds, k) ==
    LET hs == {j \in 1..k : kinds[j] = "H"} IN
    IF hs = {} THEN <<>> ELSE HeaderText(CHOOSE j \in hs : \A i \in hs : i <= j)

\* the line of the first header after the element at position k, 0 if there is none
NextHeaderLine(doc, k) ==
    LET ls == {l \in DOMAIN doc.owner : doc.owner[l] > k /\ doc.kinds[doc.owner[l]] = "H"} IN
    IF ls = {} THEN 0 ELSE CHOOSE l \in ls : \A i \in ls : l <= i

\* the snippets that come from the block at position k
SnippetsOf(cheats, k) == {i \in DOMAIN cheats : cheats[i].Command = BlockTag(k)}

\* C26: the command of every snippet is, line for line, the body of a code block
\* of the document, blank lines and indentation included.
C26_CommandIsBody ==
    pc \in {"parsing", "parsed"} =>
        \A i \in DOMAIN cvOut.index.Cheats :
            \E k \in DOMAIN cvIn.kinds :
                /\ cvIn.kinds[k] \in BlockKinds
                /\ Split(cvOut.index.Cheats[i].Command, <<"\n">>) = BodyOf(cvIn.kinds[k], k)

\* C27: the step that closes a multi-line annotation, when a code block is
\* pending, appends one snippet with the body of the last pending block, the
\* header of the current section and HasCheatBlock set, and takes that block and
\* no other out of the pending list; when none is pending it appends no snippet
\* and changes the modules or the duplicates exactly if the annotation declares
\* an export, which is then in the module map.
C27_AnnotationBlockAttaches ==
    [][(pc = "parsing" /\ cvOut.s.inCheatBlock /\ ~cvOut'.s.inCheatBlock) =>
         LET pend    == cvOut.s.pendingCodeBlocks
             before  == cvOut.index
             after   == cvOut'.index
             at      == cvIn.owner[cvOut.line]
             exports == cvIn.kinds[at] = "Exp"
         IN  IF pend # <<>>
             THEN /\ Len(after.Cheats) = Len(before.Cheats) + 1
                  /\ SubSeq(after.Cheats, 1, Len(before.Cheats)) = before.Cheats
                  /\ after.Cheats[Len(after.Cheats)].Command = pend[Len(pend)].content
                  /\ after.Cheats[Len(after.Cheats)].HasCheatBlock
                  /\ after.Cheats[Len(after.Cheats)].Header = SectionHeader(cvIn.kinds, at)
                  /\ cvOut'.s.pendingCodeBlocks = SubSeq(pend, 1, Len(pend) - 1)
             ELSE /\ after.Cheats = before.Cheats
                  /\ cvOut'.s.pendingCodeBlocks = <<>>
                  /\ (after.Modules # before.Modules \/ after.Duplicates # before.Duplicates)
                         <=> exports
                  /\ exports => /\ ExportName \in DOMAIN after.Modules
                                /\ after.Modules[ExportName].File = cvIn.path
      ]_vars

\* two blocks were pending and the annotation has just been attached to the second
C27_Witness ==
    /\ pc = "parsing" /\ cvIn.kinds = <<"Sh", "Sh", "Ann">> /\ cvOut.line = 10
    /\ Len(cvOut.index.Cheats) = 1
    /\ cvOut.index.Cheats[1].Command = BlockTag(2)
    /\ cvOut.index.Cheats[1].HasCheatBlock
    /\ Len(cvOut.s.pendingCodeBlocks) = 1
    /\ cvOut.s.pendingCodeBlocks[1].content = BlockTag(1)

\* C28: a code block gives at most one snippet, under the header of its section;
\* a snippet without annotation comes from a block whose language is not dot, and
\* is there only once the next header or the end of the file has been read; by
\* then every block of a shell language has given its snippet.
C28_BlockEmittedOnce ==
    pc \in {"parsing", "parsed"} =>
        \A k \in DOMAIN cvIn.kinds :
            cvIn.kinds[k] \in BlockKinds =>
                LET cheats  == cvOut.index.Cheats
                    from    == SnippetsOf(cheats, k)
                    nh      == NextHeaderLine(cvIn, k)
                    flushed == pc = "parsed" \/ (nh # 0 /\ cvOut.line > nh)
                IN  /\ Cardinality(from) <= 1
                    /\ \A i \in from :
                          /\ cheats[i].Header = SectionHeader(cvIn.kinds, k)
                          /\ ~cheats[i].HasCheatBlock => (cvIn.kinds[k] # "Dot" /\ flushed)
                    /\ (flushed /\ cvIn.kinds[k] # "Dot") => from # {}

\* the second block was paired, the first flushed at the header that follows
C28_Witness ==
    /\ pc = "parsed" /\ cvIn.kinds = <<"Sh", "Sh", "Ann", "H">>
    /\ Len(cvOut.index.Cheats) = 2
    /\ cvOut.index.Cheats[1].Command = BlockTag(2) /\ cvOut.index.Cheats[1].HasCheatBlock
    /\ cvOut.index.Cheats[2].Command = BlockTag(1) /\ ~cvOut.index.Cheats[2].HasCheatBlock
    /\ cvOut.index.Cheats[2].Header = <<>>

\* ------------------------------------------------------------------------
\* parser.go: ParseDirectory (parseFilesParallel, mergeResults)
\* ------------------------------------------------------------------------

\* the loop body of mergeResults for the modules of one result, visited in the
\* given order
RECURSIVE mergeModules(_, _, _)
mergeModules(idx, modules, order) ==
    IF order = <<>> THEN idx
    ELSE LET name == Head(order)
             mod  == modules[name]
             next == [idx EXCEPT
                        !.Duplicates = IF name \in DOMAIN idx.Modules
                                       THEN Append(@, DuplicateExport(name,
                                                          idx.Modules[name].File, mod.File))
                                       ELSE @,
                        !.Modules = SetModule(@, name, mod)]
         IN mergeModules(next, modules, Tail(order))

\* Parser.mergeResults: the indexes it can leave, one for each order in which the
\* module maps can be ranged over
RECURSIVE mergeResults(_, _)
mergeResults(idx, results) ==
    IF results = <<>> THEN {idx}
    ELSE UNION {mergeResults(mergeModules([idx EXCEPT !.Cheats = @ \o Head(results).cheats],
                                          Head(results).modules, order),
                             Tail(results)) :
                   order \in Orders(DOMAIN Head(results).modules)}

\* what a parse worker holds after one more file: the cheats of the file after
\* its own, the modules of the file over its own
parseWorkerFile(local, fd) ==
    LET fileIndex == parseLines(NewCheatIndex, fd.path, fd.data) IN
    [local EXCEPT !.cheats = @ \o fileIndex.Cheats,
                  !.modules = [n \in DOMAIN @ \cup DOMAIN fileIndex.Modules |->
                                   IF n \in DOMAIN fileIndex.Modules
                                   THEN fileIndex.Modules[n] ELSE @[n]]]

\* the documents of the files of a directory
FileKinds == {<<>>, <<"Sh">>, <<"Exp">>, <<"Sh", "Exp">>, <<"Exp", "Exp">>, <<"Sh", "Sh", "Ann">>}

\* runtime.NumCPU()
CPUs == {1, 2}

Directories ==
    {[files |-> <<Document(PathA, ka), Document(PathB, kb)>>, numWorkers |-> n] :
        ka \in FileKinds, kb \in FileKinds, n \in CPUs}

Min(a, b) == IF a < b THEN a ELSE b

\* ParseDirectory up to the start of the goroutines of parseFilesParallel: the
\* paths are in fileChan, the I/O workers and the parse workers hold nothing
Pipeline(dir) ==
    [fileChan |-> dir.files,
     io |-> [w \in 1..Min(dir.numWorkers * 2, Len(dir.files)) |-> <<>>],
     fileDataChan |-> <<>>,
     workers |-> [w \in 1..dir.numWorkers |->
                     [cheats |-> <<>>, modules |-> [n \in {} |-> <<>>], done |-> FALSE]],
     results |-> <<>>,
     index |-> NewCheatIndex]

\* an I/O worker receives a path from fileChan
IoTake ==
    /\ pc = "pipeline"
    /\ cvOut.fileChan # <<>>
    /\ \E w \in DOMAIN cvOut.io :
          /\ cvOut.io[w] = <<>>
          /\ cvOut' = [cvOut EXCEPT !.io[w] = <<Head(cvOut.fileChan)>>,
                                    !.fileChan = Tail(@)]
    /\ UNCHANGED <<pc, phase, quitting, selected, cursor, offset, textInput, filtered, height, varState,
                   cheatScope, late, inflight, ticks, autoContinue, environ, finalCmd, shown, lastEvent, cvIn>>

\* an I/O worker has read its file and sends the bytes, unless there are none
IoSend ==
    /\ pc = "pipeline"
    /\ \E w \in DOMAIN cvOut.io :
          /\ cvOut.io[w] # <<>>
          /\ cvOut' = [cvOut EXCEPT !.io[w] = <<>>,
                                    !.fileDataChan = IF cvOut.io[w][1].data # <<>>
                                                     THEN Append(@, cvOut.io[w][1]) ELSE @]
    /\ UNCHANGED <<pc, phase, quitting, selected, cursor, offset, textInput, filtered, height, varState,
                   cheatScope, late, inflight, ticks, autoContinue, environ, finalCmd, shown, lastEvent, cvIn>>

\* a parse worker receives a file from fileDataChan and parses it
ParseFile ==
    /\ pc = "pipeline"
    /\ cvOut.fileDataChan # <<>>
    /\ \E w \in DOMAIN cvOut.workers :
          /\ ~cvOut.workers[w].done
          /\ cvOut' = [cvOut EXCEPT
                         !.workers[w] = parseWorkerFile(@, Head(cvOut.fileDataChan)),
                         !.fileDataChan = Tail(@)]
    /\ UNCHANGED <<pc, phase, quitting, selected, cursor, offset, textInput, filtered, height, varState,
                   cheatScope, late, inflight, ticks, autoContinue, environ, finalCmd, shown, lastEvent, cvIn>>

\* fileDataChan is closed and drained: a parse worker sends its result
WorkerDone ==
    /\ pc = "pipeline"
    /\ cvOut.fileChan = <<>> /\ cvOut.fileDataChan = <<>>
    /\ \A w \in DOMAIN cvOut.io : cvOut.io[w] = <<>>
    /\ \E w \in DOMAIN cvOut.workers :
          /\ ~cvOut.workers[w].done
          /\ cvOut' = [cvOut EXCEPT
                         !.workers[w].done = TRUE,
                         !.results = Append(@, [cheats |-> cvOut.workers[w].cheats,
                                                modules |-> cvOut.workers[w].modules])]
    /\ UNCHANGED <<pc, phase, quitting, selected, cursor, offset, textInput, filtered, height, varState,
                   cheatScope, late, inflight, ticks, autoContinue, environ, finalCmd, shown, lastEvent, cvIn>>

\* resultChan is closed: ParseDirectory merges the results and returns the index
MergeResults ==
    /\ pc = "pipeline"
    /\ \A w \in DOMAIN cvOut.workers : cvOut.workers[w].done
    /\ pc' = "merged"
    /\ \E idx \in mergeResults(cvOut.index, cvOut.results) :
          cvOut' = [cvOut EXCEPT !.index = idx]
    /\ UNCHANGED <<phase, quitting, selected, cursor, offset, textInput, filtered, height, varState,
                   cheatScope, late, inflight, ticks, autoContinue, environ, finalCmd, shown, lastEvent, cvIn>>

InitDirectory ==
    /\ Idle /\ pc = "pipeline" /\ cvIn \in Directories
    /\ cvOut = Pipeline(cvIn)

NextDirectory == IoTake \/ IoSend \/ ParseFile \/ WorkerDone \/ MergeResults

SpecDirectory == InitDirectory /\ [][NextDirectory]_vars

\* ------------------------------------------------------------------------
\* Properties of ParseDirectory
\* ------------------------------------------------------------------------

\* the export declarations of the directory in document iteration order: for
\* each, the position of its file
RECURSIVE DeclarationsFrom(_, _)
DeclarationsFrom(files, f) ==
    IF f > Len(files) THEN <<>>
    ELSE [i \in 1..Cardinality({k \in DOMAIN files[f].kinds : files[f].kinds[k] = "Exp"}) |-> f]
             \o DeclarationsFrom(files, f + 1)

\* the position of the file with the given path
FileAt(files, path) == CHOOSE f \in DOMAIN files : files[f].path = path

\* the position in its file of the block that a cheat comes from
BlockAt(cheat) == CHOOSE k \in 1..MaxElems : cheat.Command = BlockTag(k)

\* C24: in the index ParseDirectory returns, for every declaration of the export
\* name after the first there is a DuplicateExport with the name, the file of
\* the declaration before it and its own file, and the module map holds the
\* module of the file of the last declaration.
C24_DuplicateExportRecorded ==
    pc = "merged" =>
        LET decls == DeclarationsFrom(cvIn.files, 1) IN
        /\ \A j \in 2..Len(decls) :
              \E d \in Range(cvOut.index.Duplicates) :
                  /\ d.Name = ExportName
                  /\ d.File1 = cvIn.files[decls[j - 1]].path
                  /\ d.File2 = cvIn.files[decls[j]].path
        /\ decls # <<>> =>
              /\ ExportName \in DOMAIN cvOut.index.Modules
              /\ cvOut.index.Modules[ExportName].File = cvIn.files[decls[Len(decls)]].path

\* C25: in the index ParseDirectory returns, the cheats are in the order of the
\* files and, within a file, in the order of their code blocks.
C25_DocumentOrder ==
    pc = "merged" =>
        \A i, j \in DOMAIN cvOut.index.Cheats :
            i < j =>
                LET a == cvOut.index.Cheats[i]
                    b == cvOut.index.Cheats[j]
                    fa == FileAt(cvIn.files, a.File)
                    fb == FileAt(cvIn.files, b.File)
                IN fa < fb \/ (fa = fb /\ BlockAt(a) < BlockAt(b))

\* ------------------------------------------------------------------------
\* collectVariables on generated import graphs
\* ------------------------------------------------------------------------

\* the longest import list
MaxImports == 2

ModP == <<"p">>
ModQ == <<"q">>
\* a name that no module exports
ModNone == <<"z">>

LocalLiteral == <<"l">>

\* the variable every module and the snippet declare: var a := <who declares it>
DeclaredBy(who) == VarDef(<<"a">>, <<>>, who, <<>>, <<>>)

ImportLists == UNION {[1..n -> {ModP, ModQ, ModNone}] : n \in 0..MaxImports}

\* a snippet `x $a` with its imports, with or without a declaration of its own,
\* and the modules p and q with theirs
ImportInputs ==
    {[cheat |-> Cheat(<<"x", " ", "$", "a">>, ci, local),
      modules |-> (ModP :> Module(pi, <<DeclaredBy(ModP)>>))
                  @@ (ModQ :> Module(qi, <<DeclaredBy(ModQ)>>))]
     : ci \in ImportLists, pi \in ImportLists, qi \in ImportLists,
       local \in {<<>>, <<DeclaredBy(LocalLiteral)>>}}

InitImports == Idle /\ pc = "collect" /\ cvIn \in ImportInputs /\ cvOut = <<>>

SpecImports == InitImports /\ [][Collect]_vars

\* the modules that module n imports and that exist
ImportsOf(modules, n) == Range(modules[n].Imports) \cap DOMAIN modules

\* the least set of existing modules that holds S and the imports of its members
RECURSIVE ImportClosure(_, _)
ImportClosure(modules, S) ==
    LET T == S \cup UNION {ImportsOf(modules, n) : n \in S} IN
    IF T = S THEN S ELSE ImportClosure(modules, T)

\* the modules the snippet reaches through its imports
Reachable(cheat, modules) ==
    ImportClosure(modules, Range(cheat.Imports) \cap DOMAIN modules)

\* the variants collected for the variable of the command, and the places at
\* which the declaration of who stands among them
CollectedVariants == IF cvOut = <<>> THEN <<>> ELSE cvOut[1].variants
PlacesOf(who) == {i \in DOMAIN CollectedVariants : CollectedVariants[i].Literal = who}

\* C29: the variants of the imported modules stand before the local ones, and
\* when a module and the snippet both declare the variable without condition the
\* variant selected is the local one.
C29_LocalPrecedence ==
    (pc = "collected" /\ cvIn.cheat.Vars # <<>> /\ Reachable(cvIn.cheat, cvIn.modules) # {}) =>
        /\ PlacesOf(LocalLiteral) = {Len(CollectedVariants)}
        /\ \A i \in selectVariant(CollectedVariants, EmptyScope) :
              i # 0 /\ CollectedVariants[i].Literal = LocalLiteral

\* C30 as stated: the variables of every reachable module are appended once,
\* those of no other module are, and the variables of a module stand after those
\* of every module it imports.
C30_ImportsBeforeImporter ==
    pc = "collected" =>
        /\ \A n \in DOMAIN cvIn.modules :
              Cardinality(PlacesOf(n)) = IF n \in Reachable(cvIn.cheat, cvIn.modules) THEN 1 ELSE 0
        /\ \A n \in Reachable(cvIn.cheat, cvIn.modules) :
              \A d \in ImportsOf(cvIn.modules, n) :
                  \A i \in PlacesOf(d), j \in PlacesOf(n) : i < j

\* C30, amended: the variables of every reachable module are appended once,
\* those of no other module are, and the variables of a module stand after those
\* of every module it imports that does not import it back, directly or through
\* other modules.
C30_ImportsBeforeImporterAcyclic ==
    pc = "collected" =>
        /\ \A n \in DOMAIN cvIn.modules :
              Cardinality(PlacesOf(n)) = IF n \in Reachable(cvIn.cheat, cvIn.modules) THEN 1 ELSE 0
        /\ \A n \in Reachable(cvIn.cheat, cvIn.modules) :
              \A d \in ImportsOf(cvIn.modules, n) :
                  n \notin ImportClosure(cvIn.modules, {d}) =>
                      \A i \in PlacesOf(d), j \in PlacesOf(n) : i < j

\* the snippet imports p and a name without module, p imports itself and q, q
\* imports the name without module: the variables of q, then p, then the snippet's
C30_Witness ==
    /\ pc = "collected"
    /\ cvIn.cheat.Imports = <<ModP, ModNone>>
    /\ cvIn.modules[ModP].Imports = <<ModP, ModQ>>
    /\ cvIn.modules[ModQ].Imports = <<ModNone>>
    /\ cvIn.cheat.Vars # <<>>
    /\ [i \in DOMAIN CollectedVariants |-> CollectedVariants[i].Literal]
           = <<ModQ, ModP, LocalLiteral>>

\* ------------------------------------------------------------------------
\* --match on generated templates and inputs
\* ------------------------------------------------------------------------

\* a template is a list of pieces: literal text, or a variable
Lit(text) == [var |-> FALSE, text |-> text]
Ref(name) == [var |-> TRUE, text |-> name]

\* x $a $f, x $f y $a, x $r y $r, x $r $r $a, x "$a" $f
MatchTemplates ==
    { <<Lit(<<"x", " ">>), Ref(<<"a">>), Lit(<<" ">>), Ref(<<"f">>)>>,
      <<Lit(<<"x", " ">>), Ref(<<"f">>), Lit(<<" ", "y", " ">>), Ref(<<"a">>)>>,
      <<Lit(<<"x", " ">>), Ref(<<"r">>), Lit(<<" ", "y", " ">>), Ref(<<"r">>)>>,
      <<Lit(<<"x", " ">>), Ref(<<"r">>), Lit(<<" ">>), Ref(<<"r">>), Lit(<<" ">>), Ref(<<"a">>)>>,
      <<Lit(<<"x", " ", "\"">>), Ref(<<"a">>), Lit(<<"\"", " ">>), Ref(<<"f">>)>> }

\* the values given to the variables: two words and a flag with its argument
MatchValues == {<<"v">>, <<"w">>, <<"-", "p", " ", "k">>}

MatchNames == {<<"a">>, <<"f">>, <<"r">>}

\* the command template the pieces spell
RECURSIVE TemplateText(_)
TemplateText(pieces) ==
    IF pieces = <<>> THEN <<>>
    ELSE (IF Head(pieces).var THEN <<"$">> \o Head(pieces).text ELSE Head(pieces).text)
         \o TemplateText(Tail(pieces))

\* the input the pieces spell once every variable has its value
RECURSIVE FilledText(_, _)
FilledText(pieces, values) ==
    IF pieces = <<>> THEN <<>>
    ELSE (IF Head(pieces).var THEN values[Head(pieces).text] ELSE Head(pieces).text)
         \o FilledText(Tail(pieces), values)

NamesIn(pieces) == {pieces[i].text : i \in {j \in DOMAIN pieces : pieces[j].var}}

\* a snippet that the inputs do not match
CheatDecoy == Cheat(<<"y", " ", "$", "a">>, <<>>, <<>>)

\* an index of the decoy and the snippet of the template, and --match with the
\* template filled in
RoundTrips ==
    {[cheats |-> <<CheatDecoy, Cheat(TemplateText(t), <<>>, <<>>)>>,
      names  |-> NamesIn(t),
      values |-> v,
      input  |-> FilledText(t, v)]
     : t \in MatchTemplates, v \in [MatchNames -> MatchValues]}

\* RunTUI with --match, up to the start of the resolution: the snippet found and
\* its Scope after prefillScopeFromMatch
MatchInput ==
    /\ pc = "match"
    /\ pc' = "matched"
    /\ \E sel \in {findMatchingCheat(cvIn.cheats, cvIn.input)} :
          cvOut' = [selected |-> sel,
                    scope |-> IF sel = 0 THEN EmptyScope
                              ELSE prefillScopeFromMatch(cvIn.cheats[sel].Command, EmptyScope,
                                                         cvIn.input)]
    /\ UNCHANGED <<phase, quitting, selected, cursor, offset, textInput, filtered, height, varState,
                   cheatScope, late, inflight, ticks, autoContinue, environ, finalCmd, shown, lastEvent, cvIn>>

InitMatch == Idle /\ pc = "match" /\ cvIn \in RoundTrips /\ cvOut = <<>>

SpecMatch == InitMatch /\ [][MatchInput]_vars

\* C31: the snippet of the template is selected, and its Scope holds, for every
\* variable of the template, the value the input was made with.
C31_MatchRoundTrip ==
    pc = "matched" =>
        /\ cvOut.selected = 2
        /\ \A n \in cvIn.names :
              n \in DOMAIN cvOut.scope /\ cvOut.scope[n] = cvIn.values[n]

\* ------------------------------------------------------------------------
\* parseLines on documents made of any lines
\* ------------------------------------------------------------------------

\* the longest document, in lines
MaxLines == 4

\* the lines a document is made of: a header, an opening fence with a language, a
\* bare fence, a line of text, the start and the end of an annotation, the end of
\* an annotation with a blank behind it, and an export directive
LineHeader   == <<"#", " ", "h">>
LineFenceSh  == Fence \o <<"s", "h">>
LineText     == <<"c">>
LineAnnStart == CommentOpen \o <<" ">> \o WordCheat
LineEndBlank == CommentEnd \o <<" ">>
LineExport   == KwExport \o <<" ">> \o ExportName

LineKinds == {LineHeader, LineFenceSh, Fence, LineText, LineAnnStart, CommentEnd,
              LineEndBlank, LineExport}

LineDocuments ==
    {[path |-> PathA, lines |-> ls, data |-> FileBytes(ls)] :
        ls \in UNION {[1..n -> LineKinds] : n \in 1..MaxLines}}

InitLines ==
    /\ Idle /\ pc = "parsing" /\ cvIn \in LineDocuments
    /\ cvOut = [index |-> NewCheatIndex, s |-> NewParseState, line |-> 1]

SpecLines == InitLines /\ [][NextParse]_vars

\* the index and the parse state once the first n lines have gone through parseLine
RECURSIVE parsedUpTo(_, _, _)
parsedUpTo(path, lines, n) ==
    IF n = 0 THEN [index |-> NewCheatIndex, s |-> NewParseState]
    ELSE LET before == parsedUpTo(path, lines, n - 1)
         IN  parseLine(before.index, before.s, path, lines[n])

\* the lines before the one that opened the block that is open at the end of the
\* file: the longest prefix after which the parser is in no block
BeforeOpenBlock(path, lines) ==
    LET outside == {n \in 0..Len(lines) :
                       /\ ~parsedUpTo(path, lines, n).s.inCodeBlock
                       /\ ~parsedUpTo(path, lines, n).s.inCheatBlock}
    IN  CHOOSE n \in outside : \A k \in outside : k <= n

\* C40: the parser is never inside a code block and inside an annotation block at
\* once; inside a code block every line but the line of exactly three backticks
\* is appended to the body and changes nothing else, so a header, an opening
\* fence with a language and an annotation start cause no transition; inside an
\* annotation block only a line that is `-->` leaves the state; and a block that
\* is still open at the end of the file yields no snippet and no module: the
\* index is the one of the lines before the block.
C40_LineStateMachine ==
    [][/\ ~(cvOut.s.inCodeBlock /\ cvOut.s.inCheatBlock)
       /\ ~(cvOut'.s.inCodeBlock /\ cvOut'.s.inCheatBlock)
       /\ (pc' = "parsing" /\ cvOut.s.inCodeBlock) =>
              LET line == linesOf(cvIn.data)[cvOut.line] IN
              IF line = Fence
              THEN ~cvOut'.s.inCodeBlock
              ELSE /\ cvOut'.index = cvOut.index
                   /\ cvOut'.s = [cvOut.s EXCEPT !.codeBlockBuf = @ \o line \o <<"\n">>]
       /\ (pc' = "parsing" /\ cvOut.s.inCheatBlock /\ ~cvOut'.s.inCheatBlock) =>
              TrimSpace(linesOf(cvIn.data)[cvOut.line]) = CommentEnd
       /\ (pc' = "parsed" /\ (cvOut.s.inCodeBlock \/ cvOut.s.inCheatBlock)) =>
              LET lines == linesOf(cvIn.data)
                  before == parsedUpTo(cvIn.path, lines, BeforeOpenBlock(cvIn.path, lines))
              IN  cvOut'.index = processPendingBlocks(before.index, cvIn.path,
                                                      before.s.currentHeader,
                                                      before.s.pendingCodeBlocks)]_vars

\* a shell block was opened and never closed; its body holds a header, an opening
\* fence with a language and an annotation start; the index is empty
C40_Witness ==
    /\ pc = "parsed" /\ cvOut.s.inCodeBlock
    /\ cvIn.lines = <<LineFenceSh, LineHeader, LineFenceSh, LineAnnStart>>
    /\ cvOut.index.Cheats = <<>> /\ DOMAIN cvOut.index.Modules = {}

====
